---- MODULE Spec2Model ----
(***************************************************************************)
(* A model of apostrophecms-astro-static: the static export pipeline       *)
(* (exportStatic), its crawl loop over a growing queue of URLs (mapLimit), *)
(* the retrying fetch client (fetchWithRetry) and sitemap discovery        *)
(* (generateSitemap).                                                      *)
(*                                                                         *)
(* Strings are sequences of one-character strings, so that the string      *)
(* operations of the code (split, replace, startsWith, sort) are computed  *)
(* and never assumed.                                                      *)
(***************************************************************************)
EXTENDS Integers, Sequences, FiniteSets, TLC

(***************************************************************************)
(* Strings                                                                 *)
(***************************************************************************)

Min(a, b) == IF a < b THEN a ELSE b

Last(s) == s[Len(s)]

Front(s) == SubSeq(s, 1, Len(s) - 1)

\* The index of the first occurrence of character c in s at or after i, 0 if none.
RECURSIVE IndexFrom(_, _, _)
IndexFrom(s, c, i) ==
    IF i > Len(s) THEN 0
    ELSE IF s[i] = c THEN i
    ELSE IndexFrom(s, c, i + 1)

\* String.prototype.split(c) for a one-character separator.
RECURSIVE Split(_, _)
Split(s, c) ==
    LET i == IndexFrom(s, c, 1)
    IN  IF i = 0 THEN <<s>>
        ELSE <<SubSeq(s, 1, i - 1)>> \o Split(SubSeq(s, i + 1, Len(s)), c)

\* Array.prototype.join(c).
RECURSIVE Join(_, _)
Join(parts, c) ==
    IF Len(parts) = 0 THEN <<>>
    ELSE IF Len(parts) = 1 THEN parts[1]
    ELSE parts[1] \o <<c>> \o Join(Tail(parts), c)

StartsWith(s, p) == Len(s) >= Len(p) /\ SubSeq(s, 1, Len(p)) = p

EndsWith(s, p) == Len(s) >= Len(p) /\ SubSeq(s, Len(s) - Len(p) + 1, Len(s)) = p

Includes(s, c) == IndexFrom(s, c, 1) # 0

\* The index of element c in the sequence s.
IndexIn(s, c) == CHOOSE i \in 1 .. Len(s) : s[i] = c

DigitChars == <<"0", "1", "2", "3", "4", "5", "6", "7", "8", "9">>

LowerAlphabet ==
    <<"a", "b", "c", "d", "e", "f", "g", "h", "i", "j", "k", "l", "m",
      "n", "o", "p", "q", "r", "s", "t", "u", "v", "w", "x", "y", "z">>

UpperAlphabet ==
    <<"A", "B", "C", "D", "E", "F", "G", "H", "I", "J", "K", "L", "M",
      "N", "O", "P", "Q", "R", "S", "T", "U", "V", "W", "X", "Y", "Z">>

Digits == {DigitChars[i] : i \in 1 .. Len(DigitChars)}

LowerLetters == {LowerAlphabet[i] : i \in 1 .. Len(LowerAlphabet)}

UpperLetters == {UpperAlphabet[i] : i \in 1 .. Len(UpperAlphabet)}

\* The characters matched by [a-z0-9] under the i flag.
AlphaNum == Digits \cup LowerLetters \cup UpperLetters

\* /\.[a-z0-9]+$/i.test(s)
RECURSIVE ExtSuffixFrom(_, _)
ExtSuffixFrom(s, i) ==
    IF i < 1 THEN FALSE
    ELSE IF s[i] = "." THEN i < Len(s)
    ELSE IF s[i] \in AlphaNum THEN ExtSuffixFrom(s, i - 1)
    ELSE FALSE

HasFileExtension(s) == ExtSuffixFrom(s, Len(s))

(***************************************************************************)
(* String.prototype.localeCompare in the default (root) collation: the     *)
(* strings are compared by their letters without case first, and by case   *)
(* (lower before upper) only to break a tie; punctuation sorts before      *)
(* digits, digits before letters.                                          *)
(***************************************************************************)
\* The UTF-16 code unit of a character, the order of the default sort().
CodeUnit(c) ==
    CASE c \in Digits -> 47 + IndexIn(DigitChars, c)
      [] c \in UpperLetters -> 64 + IndexIn(UpperAlphabet, c)
      [] c \in LowerLetters -> 96 + IndexIn(LowerAlphabet, c)
      [] c = " " -> 32
      [] c = "#" -> 35
      [] c = "%" -> 37
      [] c = "&" -> 38
      [] c = "+" -> 43
      [] c = "-" -> 45
      [] c = "." -> 46
      [] c = "/" -> 47
      [] c = "=" -> 61
      [] c = "?" -> 63
      [] c = "@" -> 64
      [] OTHER -> 0

\* The primary weight of a character: white space, then punctuation, then
\* symbols, then digits, then letters, a letter and its capital alike.
Primary(c) ==
    CASE c \in Digits -> 20 + IndexIn(DigitChars, c)
      [] c \in UpperLetters -> 30 + IndexIn(UpperAlphabet, c)
      [] c \in LowerLetters -> 30 + IndexIn(LowerAlphabet, c)
      [] c = " " -> 1
      [] c = "-" -> 2
      [] c = "?" -> 3
      [] c = "." -> 4
      [] c = "@" -> 5
      [] c = "/" -> 6
      [] c = "&" -> 7
      [] c = "#" -> 8
      [] c = "%" -> 9
      [] c = "+" -> 10
      [] c = "=" -> 11
      [] OTHER -> 0

Tertiary(c) == IF c \in UpperLetters THEN 1 ELSE 0

\* The weight of character c at a level of the collation.
Weight(level, c) ==
    CASE level = 0 -> CodeUnit(c)
      [] level = 1 -> Primary(c)
      [] OTHER -> Tertiary(c)

\* -1, 0 or 1 as the weights of a come before, with or after those of b.
RECURSIVE CompareBy(_, _, _)
CompareBy(level, a, b) ==
    IF Len(a) = 0 /\ Len(b) = 0 THEN 0
    ELSE IF Len(a) = 0 THEN -1
    ELSE IF Len(b) = 0 THEN 1
    ELSE IF Weight(level, a[1]) < Weight(level, b[1]) THEN -1
    ELSE IF Weight(level, a[1]) > Weight(level, b[1]) THEN 1
    ELSE CompareBy(level, Tail(a), Tail(b))

localeCompare(a, b) ==
    LET p == CompareBy(1, a, b)
    IN  IF p # 0 THEN p ELSE CompareBy(3, a, b)

(***************************************************************************)
(* URLSearchParams and queryParamsToPath                                   *)
(***************************************************************************)

\* The character of a percent escape, for the escapes of the reserved characters.
EscapedChar(hex) ==
    CASE hex = <<"2", "0">> -> " "
      [] hex = <<"2", "6">> -> "&"
      [] hex = <<"2", "F">> -> "/"
      [] hex = <<"3", "D">> -> "="
      [] hex = <<"3", "F">> -> "?"
      [] OTHER -> "none"

\* The decoding URLSearchParams applies to a key and to a value: "+" is a
\* space, a percent escape is its character.
RECURSIVE PercentDecode(_)
PercentDecode(s) ==
    IF Len(s) = 0 THEN <<>>
    ELSE IF s[1] = "+" THEN <<" ">> \o PercentDecode(Tail(s))
    ELSE IF s[1] = "%" /\ Len(s) >= 3 /\ EscapedChar(SubSeq(s, 2, 3)) # "none"
         THEN <<EscapedChar(SubSeq(s, 2, 3))>> \o PercentDecode(SubSeq(s, 4, Len(s)))
    ELSE <<s[1]>> \o PercentDecode(Tail(s))

\* One "key=value" piece of a query string: split at the first "=", then decoded.
ParsePair(piece) ==
    LET i == IndexFrom(piece, "=", 1)
    IN  IF i = 0 THEN <<PercentDecode(piece), <<>>>>
        ELSE <<PercentDecode(SubSeq(piece, 1, i - 1)),
               PercentDecode(SubSeq(piece, i + 1, Len(piece)))>>

\* new URLSearchParams(search).entries(): the non-empty "&" pieces in order.
RECURSIVE ParsePieces(_)
ParsePieces(pieces) ==
    IF Len(pieces) = 0 THEN <<>>
    ELSE IF Len(pieces[1]) = 0 THEN ParsePieces(Tail(pieces))
    ELSE <<ParsePair(pieces[1])>> \o ParsePieces(Tail(pieces))

URLSearchParams(search) == ParsePieces(Split(search, "&"))

\* Insert entry e after every entry whose key is not greater (a stable sort).
RECURSIVE InsertSorted(_, _)
InsertSorted(sorted, e) ==
    IF Len(sorted) = 0 THEN <<e>>
    ELSE IF localeCompare(sorted[1][1], e[1]) <= 0
         THEN <<sorted[1]>> \o InsertSorted(Tail(sorted), e)
         ELSE <<e>> \o sorted

\* Array.prototype.sort((a, b) => a[0].localeCompare(b[0])), which is stable.
RECURSIVE SortParams(_)
SortParams(entries) ==
    IF Len(entries) = 0 THEN <<>>
    ELSE InsertSorted(SortParams(Front(entries)), Last(entries))

RECURSIVE ParamPartsKeepEmpty(_)
ParamPartsKeepEmpty(entries) ==
    IF Len(entries) = 0 THEN <<>>
    ELSE <<entries[1][1] \o <<"-">> \o entries[1][2]>> \o ParamPartsKeepEmpty(Tail(entries))

\* The `${key}-${value}` parts of the entries with a non-empty value.
RECURSIVE ParamParts(_)
ParamParts(entries) ==
    IF Len(entries) = 0 THEN <<>>
    ELSE IF Len(entries[1][2]) = 0 THEN ParamParts(Tail(entries))
    ELSE <<entries[1][1] \o <<"-">> \o entries[1][2]>> \o ParamParts(Tail(entries))

queryParamsToPath(urlPath) ==
    LET pieces   == Split(urlPath, "?")
        pathname == pieces[1]
        search   == IF Len(pieces) >= 2 THEN pieces[2] ELSE <<>>
        parts    == ParamParts(SortParams(URLSearchParams(search)))
        cleanPath == IF EndsWith(pathname, <<"/">>) THEN Front(pathname) ELSE pathname
    IN  IF Len(search) = 0 THEN pathname
        ELSE IF Len(parts) = 0 THEN pathname
        ELSE cleanPath \o <<"/">> \o Join(parts, "-") \o <<"/">>

(***************************************************************************)
(* writeHtmlForPath: the file a URL path is written to, as the list of the *)
(* path segments below the output directory (path.join drops empty and "." *)
(* segments and resolves "..").                                            *)
(***************************************************************************)
RECURSIVE NormalizeSegments(_, _)
NormalizeSegments(segs, acc) ==
    IF Len(segs) = 0 THEN acc
    ELSE IF Len(segs[1]) = 0 \/ segs[1] = <<".">> THEN NormalizeSegments(Tail(segs), acc)
    ELSE IF segs[1] = <<".", ".">>
         THEN NormalizeSegments(Tail(segs), IF Len(acc) = 0 THEN acc ELSE Front(acc))
    ELSE NormalizeSegments(Tail(segs), Append(acc, segs[1]))

PathJoin(p) == NormalizeSegments(Split(p, "/"), <<>>)

IndexHtml == <<"i", "n", "d", "e", "x", ".", "h", "t", "m", "l">>

OutputPath(urlPath) ==
    LET staticPath == queryParamsToPath(urlPath)
    IN  IF HasFileExtension(staticPath) THEN PathJoin(staticPath)
        ELSE IF staticPath = <<"/">> THEN <<IndexHtml>>
        ELSE Append(PathJoin(staticPath), IndexHtml)

(***************************************************************************)
(* Bounds of the model                                                     *)
(***************************************************************************)

\* The largest worker count tried (options.concurrency ranges over 1..MaxConcurrency).
MaxConcurrency == 2

\* results.errors is kept up to this many entries; later entries are not kept.
MaxErrors == 2

\* Counters of requests, file writes and widgets count up to this value and stay there.
MaxCount == 2

\* The number of readiness polls that fit in the timeout of waitForServer.
MaxPolls == 2

\* The largest retries argument tried (retries ranges over 0..MaxRetries).
MaxRetries == 4

\* The API serves full item pages only before this page number.
MaxItemPages == 2

\* The longest item list and the largest limit tried for mapLimit.
MaxItems == 3

MaxLimit == 3

\* The largest page count and queue length tried for the progress computation.
MaxProcessed == 29

MaxQueued == 71

Bump(n) == Min(n + 1, MaxCount)

(***************************************************************************)
(* The preview site: raw URL paths and the pages behind them               *)
(***************************************************************************)
Root == <<"/">>

PathA == <<"/", "a", "/">>

PathANoSlash == <<"/", "a">>

PathAQueryBA == <<"/", "a", "?", "b", "=", "1", "&", "a", "=", "2">>

PathAQueryAB == <<"/", "a", "?", "a", "=", "2", "&", "b", "=", "1">>

PathAPage2 == <<"/", "a", "/", "?", "b", "=", "2">>

Urls == {Root, PathA, PathANoSlash, PathAQueryBA, PathAQueryAB, PathAPage2}

\* An anchor of a page, already resolved against the preview base URL.
Href(origin, path) == [origin |-> origin, path |-> path]

Page(links, widgets) == [hrefs |-> links, widgets |-> widgets]

Here(paths) == [i \in 1 .. Len(paths) |-> Href("preview", paths[i])]

\* /a/ is also linked without its trailing slash.
SiteSlash ==
    (Root :> Page(Here(<<PathA>>), 0)) @@
    (PathA :> Page(Here(<<Root, PathANoSlash>>), 0)) @@
    (PathANoSlash :> Page(Here(<<PathA>>), 0))

\* The same two parameters are linked in both orders.
SiteQuery ==
    (Root :> Page(Here(<<PathAQueryBA, PathAQueryAB>>), 0)) @@
    (PathAQueryBA :> Page(<<>>, 0)) @@
    (PathAQueryAB :> Page(<<>>, 0))

\* Every page links to itself; /a/ holds two video widgets and a paginated link.
SiteSelf ==
    (Root :> Page(Here(<<Root, Root>>) \o <<Href("other", PathA)>>, 0)) @@
    (PathA :> Page(Here(<<PathA, PathAPage2>>), 2)) @@
    (PathAPage2 :> Page(Here(<<PathA>>), 0))

Sites == {SiteSlash, SiteQuery, SiteSelf}

\* The lists generateSitemap returns to exportStatic: sorted, without duplicates.
SitemapResults == {<<Root>>, <<Root, PathA>>}

\* options.localeConfig: absent, or the list of its entries.
NoLocaleConfig == "undefined"

LocaleConfigs == {NoLocaleConfig, <<>>, <<[locale |-> "en", prefix |-> <<>>]>>}

(***************************************************************************)
(* State of one run of exportStatic                                        *)
(***************************************************************************)
VARIABLES
    pc,                    \* where exportStatic is
    concurrency,           \* options.concurrency
    localeConfig,          \* options.localeConfig
    site,                  \* what the preview server serves
    spawned,               \* astroProcess exists
    shutdownCalls,         \* how many times shutdown() ran
    polls,                 \* failed readiness polls of waitForServer
    localeIdx,             \* locale entries already discovered
    allUrls,               \* the seed list
    oldFiles,              \* the output directory still holds its previous contents
    page404,               \* what 404.html in the output directory holds
    response404,           \* how the request for /404 ended
    urlQueue,              \* pending raw URL paths
    processedUrls,         \* raw URL paths written
    processedVideoWidgets,
    videoHtml,             \* per URL, what processVideoWidgets made of its widgets
    results,               \* the object exportStatic returns
    progress,              \* the last value passed to onProgress
    mlQueue,               \* mapLimit: items not yet taken
    mlResults,             \* mapLimit: its own results object
    rpc,                   \* mapLimit: where each runner is
    item,                  \* mapLimit: the URL a runner is handling
    fetchCalls,            \* page requests made per raw URL path
    writeCount             \* writes per output file

pipelineVars == <<pc, concurrency, localeConfig, site, spawned, shutdownCalls, polls,
                  localeIdx, allUrls, oldFiles, page404, response404>>

crawlVars == <<urlQueue, processedUrls, processedVideoWidgets, videoHtml, results,
               progress, mlQueue, mlResults, rpc, item, fetchCalls, writeCount>>

(***************************************************************************)
(* State of one call of fetchWithRetry                                     *)
(***************************************************************************)
VARIABLES
    fwPc,                  \* "idle", "request", "delay", "returned" or "thrown"
    fwRetries,             \* the retries argument
    fwAttempt,             \* the loop variable attempt
    fwLog,                 \* how each attempt made so far has settled
    fwDelays,              \* the backoff delays taken so far, in ms
    fwLastError            \* lastError

fetchVars == <<fwPc, fwRetries, fwAttempt, fwLog, fwDelays, fwLastError>>

(***************************************************************************)
(* State of one call of generateSitemap                                    *)
(***************************************************************************)
VARIABLES
    smPc,                  \* "idle", "pages", "root", "probe", "items", "returned", "thrown"
    smLocale,              \* options.locale, the empty string for none
    smPieceTypes,          \* options.pieceTypes
    smRequests,            \* the requests issued so far
    smOutcomes,            \* how the requests that have settled did settle
    smPages,               \* the item page each settled request was answered with
    smPageUrls,            \* the result of fetchAllPages
    smProbeQueue,          \* discoverPieceTypes: keys still to be probed
    smDiscovered,          \* discoverPieceTypes: discoveredTypes
    smTypes,               \* the types whose items are still to be fetched
    smCurrentPage,         \* fetchAllPieces: currentPage
    smUrls,                \* fetchAllPieces: urls
    smPieceUrls,           \* pieceUrls
    smResult               \* the list returned

sitemapVars == <<smPc, smLocale, smPieceTypes, smRequests, smOutcomes, smPages,
                 smPageUrls,
                 smProbeQueue, smDiscovered, smTypes, smCurrentPage, smUrls,
                 smPieceUrls, smResult>>

VARIABLES
    upPc,                  \* "idle", or "ready" once a URL is given
    upPage,                \* the path of the page that holds the URL
    upPrefix,              \* the origin the URL is written with, empty for none
    upPath,                \* the path of the URL
    upParams,              \* the parameters of its query, in the order written
    upHash,                \* its fragment with the "#", empty for none
    upCanon,               \* queryParamsToPath(path + query)
    upCanon2,              \* queryParamsToPath of that
    upReordered,           \* queryParamsToPath(path + query in another order)
    upNorm,                \* normalizeUrl(url)
    upNorm2,               \* normalizeUrl of that
    upRewritten,           \* the attribute value makeUrlsRelative leaves
    upLink,                \* what extractInternalLinks adds for the URL
    upFile                 \* the file writeHtmlForPath writes for that link

urlVars == <<upPc, upPage, upPrefix, upPath, upParams, upHash, upCanon, upCanon2,
             upReordered, upNorm, upNorm2, upRewritten, upLink, upFile>>

VARIABLES
    prProcessed,           \* processedUrls.size when the progress is computed
    prQueued,              \* urlQueue.length at that moment
    prValue                \* the value passed to onProgress, 0 before the call

progressVars == <<prProcessed, prQueued, prValue>>

VARIABLES
    mpPc,                  \* where the call of mapLimit is
    mpItems,               \* its items argument
    mpLimit,               \* its limit argument
    mpQueue,               \* queue: the items not yet shifted
    mpResults,             \* results: success, failed, errors
    mpPassed,              \* the worker calls so far: runner, item and how it ended
    mpWork                 \* per runner: its pending worker call in mpPassed, 0 if none

mapLimitVars == <<mpPc, mpItems, mpLimit, mpQueue, mpResults, mpPassed, mpWork>>

exportVars == <<pipelineVars, crawlVars>>

Runners == 1 .. MaxConcurrency

\* writeHtmlForPath on the URL paths of the model: the file each is written to.
OutputFileOf == [u \in Urls |-> OutputPath(u)]

OutputFiles == {OutputFileOf[u] : u \in Urls}

NoItem == <<>>

InitExportWith(localeConfigs) ==
    /\ pc = "build"
    /\ concurrency \in 1 .. MaxConcurrency
    /\ localeConfig \in localeConfigs
    /\ site \in Sites
    /\ spawned = FALSE
    /\ shutdownCalls = 0
    /\ polls = 0
    /\ localeIdx = 0
    /\ allUrls = <<>>
    /\ oldFiles = TRUE
    /\ page404 = "none"
    /\ response404 = "none"
    /\ urlQueue = <<>>
    /\ processedUrls = {}
    /\ processedVideoWidgets = 0
    /\ videoHtml = [u \in Urls |-> <<>>]
    /\ results = [success |-> TRUE, pagesRendered |-> 0, videoWidgetsProcessed |-> 0,
                  errors |-> <<>>]
    /\ progress = 0
    /\ mlQueue = <<>>
    /\ mlResults = [success |-> 0, failed |-> 0, errors |-> <<>>]
    /\ rpc = [r \in Runners |-> "off"]
    /\ item = [r \in Runners |-> NoItem]
    /\ fetchCalls = [u \in Urls |-> 0]
    /\ writeCount = [f \in OutputFiles |-> 0]

InitExport == InitExportWith(LocaleConfigs)

(***************************************************************************)
(* Array.prototype.sort() without a comparator: by UTF-16 code unit        *)
(***************************************************************************)
Range(s) == {s[i] : i \in 1 .. Len(s)}

\* Array.from(new Set(list)).sort() of a list whose elements are the set S.
RECURSIVE SortedSet(_)
SortedSet(S) ==
    IF S = {} THEN <<>>
    ELSE LET least == CHOOSE x \in S : \A y \in S : CompareBy(0, x, y) <= 0
         IN  <<least>> \o SortedSet(S \ {least})

\* list.filter(x => !S.has(x))
SelectNot(s, S) == SelectSeq(s, LAMBDA x : x \notin S)

\* The elements of s at the indices in I, in order.
SubSeqAt(s, I) ==
    [k \in 1 .. Cardinality(I) |->
        s[CHOOSE i \in I : Cardinality({j \in I : j <= i}) = k]]

\* list.push(x) for each x of more, in order, that is not in skip and not yet
\* in the list.
PushNewUnlessProcessed(list, more, skip) ==
    list \o SubSeqAt(more, {i \in 1 .. Len(more) : more[i] \notin skip})

PushNew(list, more, skip) ==
    list \o SubSeqAt(more, {i \in 1 .. Len(more) :
                               /\ more[i] \notin skip
                               /\ more[i] \notin Range(list)
                               /\ \A j \in 1 .. i - 1 : more[j] # more[i]})

(***************************************************************************)
(* applyLocalePrefix                                                       *)
(***************************************************************************)
PrefixOneAlways(url, localePrefix) == localePrefix \o url

PrefixOne(url, localePrefix) ==
    IF StartsWith(url, localePrefix \o <<"/">>) \/ url = localePrefix THEN url
    ELSE IF url = <<"/">> THEN localePrefix \o <<"/">>
    ELSE localePrefix \o url

applyLocalePrefix(urls, localePrefix) ==
    IF Len(localePrefix) = 0 THEN urls
    ELSE [i \in 1 .. Len(urls) |-> PrefixOne(urls[i], localePrefix)]

(***************************************************************************)
(* extractInternalLinks: the same-origin anchors of a page as path plus    *)
(* query, in document order without repetition.                            *)
(***************************************************************************)
extractInternalLinks(page) ==
    LET hrefs == page.hrefs
        first == {i \in 1 .. Len(hrefs) :
                    /\ hrefs[i].origin = "preview"
                    /\ \A j \in 1 .. i - 1 :
                          ~(hrefs[j].origin = "preview" /\ hrefs[j].path = hrefs[i].path)}
        kept == SubSeqAt(hrefs, first)
    IN  [k \in 1 .. Len(kept) |-> kept[k].path]

(***************************************************************************)
(* exportStatic up to the crawl loop                                       *)
(***************************************************************************)

\* The finally block: shutdown() runs, then control goes back to the caller.
FinallyNoShutdown(outcome) ==
    /\ pc' = outcome
    /\ shutdownCalls' = shutdownCalls

Finally(outcome) ==
    /\ pc' = outcome
    /\ shutdownCalls' = shutdownCalls + 1

\* execSync("npm run build") and spawn of the preview server.
Build ==
    /\ pc = "build"
    /\ \E ok \in BOOLEAN :
         IF ok THEN /\ pc' = "waitForServer"
                    /\ spawned' = TRUE
               ELSE /\ pc' = "thrown"
                    /\ UNCHANGED spawned
    /\ UNCHANGED <<concurrency, localeConfig, site, shutdownCalls, polls, localeIdx,
                   allUrls, oldFiles, page404, response404>>
    /\ UNCHANGED crawlVars
    /\ UNCHANGED <<fetchVars, sitemapVars, urlVars, progressVars, mapLimitVars>>

\* One poll of waitForServer; the timeout leaves room for MaxPolls failed polls.
WaitForServerThenClean ==
    /\ pc = "waitForServer"
    /\ \E ok \in BOOLEAN :
         IF ok THEN /\ pc' = "discover"
                    /\ polls' = 0
                    /\ oldFiles' = FALSE
                    /\ UNCHANGED shutdownCalls
         ELSE IF polls + 1 < MaxPolls
              THEN /\ polls' = polls + 1
                   /\ UNCHANGED <<pc, shutdownCalls, oldFiles>>
              ELSE /\ polls' = polls + 1
                   /\ Finally("thrown")
                   /\ UNCHANGED oldFiles
    /\ UNCHANGED <<concurrency, localeConfig, site, spawned, localeIdx, allUrls,
                   page404, response404>>
    /\ UNCHANGED crawlVars
    /\ UNCHANGED <<fetchVars, sitemapVars, urlVars, progressVars, mapLimitVars>>

WaitForServer ==
    /\ pc = "waitForServer"
    /\ \E ok \in BOOLEAN :
         IF ok THEN /\ pc' = "discover"
                    /\ polls' = 0
                    /\ UNCHANGED shutdownCalls
         ELSE IF polls + 1 < MaxPolls
              THEN /\ polls' = polls + 1
                   /\ UNCHANGED <<pc, shutdownCalls>>
              ELSE /\ polls' = polls + 1
                   /\ Finally("thrown")
    /\ UNCHANGED <<concurrency, localeConfig, site, spawned, localeIdx, allUrls,
                   oldFiles, page404, response404>>
    /\ UNCHANGED crawlVars
    /\ UNCHANGED <<fetchVars, sitemapVars, urlVars, progressVars, mapLimitVars>>

\* cleanDir, the copy of the build output and the start of the crawl loop.
PrepareOutputCleanFirst(urls, dist404) ==
    IF Len(urls) = 0
    THEN /\ Finally("thrown")
         /\ allUrls' = urls
         /\ oldFiles' = FALSE
         /\ UNCHANGED <<page404, response404, urlQueue>>
    ELSE /\ pc' = "crawl"
         /\ allUrls' = urls
         /\ oldFiles' = FALSE
         /\ page404' = IF dist404 THEN "dist" ELSE "none"
         /\ UNCHANGED response404
         /\ urlQueue' = urls
         /\ UNCHANGED shutdownCalls

PrepareOutput(urls, dist404) ==
    IF Len(urls) = 0
    THEN /\ Finally("thrown")
         /\ allUrls' = urls
         /\ UNCHANGED <<oldFiles, page404, response404, urlQueue>>
    ELSE /\ pc' = "crawl"
         /\ allUrls' = urls
         /\ oldFiles' = FALSE
         /\ page404' = IF dist404 THEN "dist" ELSE "none"
         /\ UNCHANGED response404
         /\ urlQueue' = urls
         /\ UNCHANGED shutdownCalls

\* One call of generateSitemap (one per locale entry, or the only one), and,
\* after the last, the check for an empty list and the preparation of the output.
DiscoverFrom(sitemaps) ==
    /\ pc = "discover"
    /\ IF localeConfig = NoLocaleConfig
       THEN \E ok \in BOOLEAN, urls \in sitemaps, dist404 \in BOOLEAN :
              IF ok THEN PrepareOutput(urls, dist404) /\ UNCHANGED localeIdx
              ELSE Finally("thrown")
                   /\ UNCHANGED <<localeIdx, allUrls, oldFiles, page404, response404, urlQueue>>
       ELSE IF localeIdx < Len(localeConfig)
       THEN \E ok \in BOOLEAN, urls \in sitemaps :
              IF ok
              THEN /\ localeIdx' = localeIdx + 1
                   /\ allUrls' = allUrls \o
                        applyLocalePrefix(urls, localeConfig[localeIdx + 1].prefix)
                   /\ UNCHANGED <<pc, shutdownCalls, oldFiles, page404, response404, urlQueue>>
              ELSE Finally("thrown")
                   /\ UNCHANGED <<localeIdx, allUrls, oldFiles, page404, response404, urlQueue>>
       ELSE \E dist404 \in BOOLEAN :
              PrepareOutput(SortedSet(Range(allUrls)), dist404) /\ UNCHANGED localeIdx
    /\ UNCHANGED <<concurrency, localeConfig, site, spawned, polls>>
    /\ UNCHANGED <<processedUrls, processedVideoWidgets, videoHtml, results, progress,
                   mlQueue, mlResults, rpc, item, fetchCalls, writeCount>>
    /\ UNCHANGED <<fetchVars, sitemapVars, urlVars, progressVars, mapLimitVars>>

Discover == DiscoverFrom(SitemapResults)

(***************************************************************************)
(* Discovery with locale prefixes on its own                               *)
(***************************************************************************)
PathFr == <<"/", "f", "r", "/">>

PathFrA == <<"/", "f", "r", "/", "a", "/">>

PathFrench == <<"/", "f", "r", "e", "n", "c", "h", "/">>

PrefixFr == <<"/", "f", "r">>

PrefixDe == <<"/", "d", "e">>

\* What generateSitemap returns for a locale: sorted, without duplicates, and
\* never empty.
LocaleSitemaps ==
    {<<Root>>, <<Root, PathA>>, <<Root, PathFrA>>, <<Root, PathFr, PathFrA>>,
     <<Root, PathFr, PathFrench>>}

LocaleEntry(locale, prefix) == [locale |-> locale, prefix |-> prefix]

\* options.localeConfig with and without prefixes.
PrefixedLocaleConfigs ==
    {<<LocaleEntry("en", <<>>)>>,
     <<LocaleEntry("fr", PrefixFr)>>,
     <<LocaleEntry("en", <<>>), LocaleEntry("fr", PrefixFr)>>,
     <<LocaleEntry("fr", PrefixFr), LocaleEntry("de", PrefixDe)>>}

\* exportStatic is called with a locale configuration.
InitDiscovery ==
    /\ InitExportWith(PrefixedLocaleConfigs)
    /\ concurrency = 1
    /\ site = SiteSlash

DiscoverLocales == DiscoverFrom(LocaleSitemaps)

(***************************************************************************)
(* The crawl loop of exportStatic and the runners of mapLimit              *)
(***************************************************************************)

\* The arithmetic of line 298 is that of IEEE-754 doubles.  A number with 53
\* or more significant bits is kept as five limbs <<top, l1, l2, l3, l4>>: its
\* value is (top + l1 / Limb + l2 / Limb^2 + l3 / Limb^3 + l4 / Limb^4) / 2^s
\* for a scale s kept beside it; the four low limbs are the 52 bits after the
\* binary point.
Limb == 8192

\* The limbs with every low limb brought below Limb, the excess carried up.
RECURSIVE Carry(_)
Carry(l) ==
    IF Len(l) = 1 THEN l
    ELSE Carry([Front(l) EXCEPT ![Len(l) - 1] = @ + (Last(l) \div Limb)])
             \o <<Last(l) % Limb>>

\* The least s with p * 2^s >= d, and p * 2^s.
RECURSIVE Shift(_, _)
Shift(p, d) == IF p >= d THEN 0 ELSE 1 + Shift(2 * p, d)

RECURSIVE Shifted(_, _)
Shifted(p, d) == IF p >= d THEN p ELSE Shifted(2 * p, d)

\* Round to nearest, ties to even, at the last bit of the lowest limb: the
\* limbs are the exact floor, rest / d the fraction of that last bit left over.
RoundLimbs(l, rest, d) ==
    LET up == 2 * rest > d \/ (2 * rest = d /\ l[5] % 2 = 1)
    IN  IF up THEN Carry([l EXCEPT ![5] = @ + 1]) ELSE l

\* The double p / d for integers 0 < p <= d, as limbs at scale Shift(p, d):
\* long division of p * 2^s by d, one limb at a time, then rounded to 53 bits.
FloatDivide(p, d) ==
    LET r0 == Shifted(p, d) - d
        r1 == (r0 * Limb) % d
        r2 == (r1 * Limb) % d
        r3 == (r2 * Limb) % d
        r4 == (r3 * Limb) % d
        floor == <<1, (r0 * Limb) \div d, (r1 * Limb) \div d,
                   (r2 * Limb) \div d, (r3 * Limb) \div d>>
    IN  RoundLimbs(floor, r4, d)

\* The double x * 50 at the scale of x: the exact product has 58 bits when its
\* top limb is below 64 and 59 bits otherwise, so 5 or 6 low bits are rounded
\* away, to nearest, ties to even.
FloatTimes50(x) ==
    LET exact == Carry([i \in 1 .. 5 |-> 50 * x[i]])
        unit == IF exact[1] < 64 THEN 32 ELSE 64
        low == exact[5] % unit
        kept == [exact EXCEPT ![5] = @ - low]
        up == 2 * low > unit \/ (2 * low = unit /\ (exact[5] \div unit) % 2 = 1)
    IN  IF up THEN Carry([kept EXCEPT ![5] = @ + unit]) ELSE kept

\* 2^(s - 1) for s > 0
RECURSIVE HalfUnit(_)
HalfUnit(s) == IF s = 1 THEN 1 ELSE 2 * HalfUnit(s - 1)

\* Math.round of the double y at scale s, floor(y + 1/2): for s > 0 the half
\* is a whole number of units of the top limb, for s = 0 it is half of Limb in
\* the limb below.
MathRound(y, s) ==
    IF s = 0 THEN y[1] + (IF 2 * y[2] >= Limb THEN 1 ELSE 0)
    ELSE (y[1] + HalfUnit(s)) \div (2 * HalfUnit(s))

\* 40 + Math.round((processed / (processed + queued)) * 50)
ProgressValue(processed, queued) ==
    40 + MathRound(FloatTimes50(FloatDivide(processed, processed + queued)),
                   Shift(processed, processed + queued))

\* ProgressValue for the page counts and queue lengths of the crawl of the
\* model, computed once: <<processed, queued, value>>.
ProgressTable ==
    {<<p, q, ProgressValue(p, q)>> :
        p \in 1 .. Cardinality(Urls), q \in 0 .. Cardinality(Urls)}

ProgressOf(processed, queued) ==
    (CHOOSE t \in ProgressTable : t[1] = processed /\ t[2] = queued)[3]

\* results.errors.push(entry), kept up to MaxErrors entries.
PushError(entry) ==
    IF Len(results.errors) < MaxErrors
    THEN [results EXCEPT !.errors = Append(@, entry)]
    ELSE results

\* The catch block of the handler: the error is recorded and the handler
\* returns normally, so mapLimit counts the item as a success.
HandlerCatchRethrow(r, message) ==
    /\ results' = PushError([url |-> item[r], error |-> message])
    /\ mlResults' = [mlResults EXCEPT !.failed = @ + 1]
    /\ rpc' = [rpc EXCEPT ![r] = "done"]
    /\ item' = [item EXCEPT ![r] = NoItem]
    /\ UNCHANGED <<processedUrls, progress, writeCount>>

HandlerCatchMarksProcessed(r, message) ==
    /\ results' = PushError([url |-> item[r], error |-> message])
    /\ mlResults' = [mlResults EXCEPT !.success = @ + 1]
    /\ rpc' = [rpc EXCEPT ![r] = "loop"]
    /\ item' = [item EXCEPT ![r] = NoItem]
    /\ processedUrls' = processedUrls \cup {item[r]}
    /\ UNCHANGED <<progress, writeCount>>

HandlerCatch(r, message) ==
    /\ results' = PushError([url |-> item[r], error |-> message])
    /\ mlResults' = [mlResults EXCEPT !.success = @ + 1]
    /\ rpc' = [rpc EXCEPT ![r] = "loop"]
    /\ item' = [item EXCEPT ![r] = NoItem]
    /\ UNCHANGED <<processedUrls, progress, writeCount>>

\* makeUrlsRelative, writeHtmlForPath, processedUrls.add and onProgress.
WritePage(r, queued) ==
    /\ writeCount' = [writeCount EXCEPT ![OutputFileOf[item[r]]] = Bump(@)]
    /\ processedUrls' = processedUrls \cup {item[r]}
    /\ progress' = ProgressOf(Cardinality(processedUrls \cup {item[r]}), Len(queued))
    /\ mlResults' = [mlResults EXCEPT !.success = @ + 1]
    /\ rpc' = [rpc EXCEPT ![r] = "loop"]
    /\ item' = [item EXCEPT ![r] = NoItem]
    /\ UNCHANGED results

\* urlQueue.splice(0, concurrency * 2), the filter, and the synchronous start of
\* the runners of mapLimit: each takes one item and issues its request.
BatchStart ==
    /\ pc = "crawl"
    /\ Len(urlQueue) > 0
    /\ LET n == Min(2 * concurrency, Len(urlQueue))
           batch == SubSeq(urlQueue, 1, n)
           batchUrls == SelectNot(batch, processedUrls)
           k == Min(concurrency, Len(batchUrls))
       IN  /\ urlQueue' = SubSeq(urlQueue, n + 1, Len(urlQueue))
           /\ IF Len(batchUrls) = 0
              THEN UNCHANGED <<pc, mlQueue, mlResults, rpc, item, fetchCalls>>
              ELSE /\ pc' = "batch"
                   /\ mlQueue' = SubSeq(batchUrls, k + 1, Len(batchUrls))
                   /\ mlResults' = [success |-> 0, failed |-> 0, errors |-> <<>>]
                   /\ rpc' = [r \in Runners |->
                                IF r <= k THEN "fetch"
                                ELSE IF r <= concurrency THEN "done" ELSE "off"]
                   /\ item' = [r \in Runners |-> IF r <= k THEN batchUrls[r] ELSE NoItem]
                   /\ fetchCalls' = [u \in Urls |->
                                IF u \in Range(SubSeq(batchUrls, 1, k))
                                THEN Bump(fetchCalls[u]) ELSE fetchCalls[u]]
    /\ UNCHANGED <<concurrency, localeConfig, site, spawned, shutdownCalls, polls,
                   localeIdx, allUrls, oldFiles, page404, response404>>
    /\ UNCHANGED <<processedUrls, processedVideoWidgets, videoHtml, results, progress,
                   writeCount>>
    /\ UNCHANGED <<fetchVars, sitemapVars, urlVars, progressVars, mapLimitVars>>

\* A runner is back at the head of its loop: queue.shift() and the start of the handler.
RunnerTake(r) ==
    /\ pc = "batch"
    /\ rpc[r] = "loop"
    /\ IF Len(mlQueue) = 0
       THEN /\ rpc' = [rpc EXCEPT ![r] = "done"]
            /\ UNCHANGED <<mlQueue, mlResults, item, fetchCalls>>
       ELSE /\ mlQueue' = Tail(mlQueue)
            /\ IF Head(mlQueue) \in processedUrls
               THEN /\ mlResults' = [mlResults EXCEPT !.success = @ + 1]
                    /\ UNCHANGED <<rpc, item, fetchCalls>>
               ELSE /\ rpc' = [rpc EXCEPT ![r] = "fetch"]
                    /\ item' = [item EXCEPT ![r] = Head(mlQueue)]
                    /\ fetchCalls' = [fetchCalls EXCEPT ![Head(mlQueue)] = Bump(@)]
                    /\ UNCHANGED mlResults
    /\ UNCHANGED pipelineVars
    /\ UNCHANGED <<urlQueue, processedUrls, processedVideoWidgets, videoHtml, results,
                   progress, writeCount>>
    /\ UNCHANGED <<fetchVars, sitemapVars, urlVars, progressVars, mapLimitVars>>

\* fetchWithRetry and response.text() have settled for the page of runner r.  On
\* success the links are extracted and enqueued; a page without video widgets is
\* then rewritten and written at once.
FetchDone(r) ==
    /\ pc = "batch"
    /\ rpc[r] = "fetch"
    /\ \E outcome \in {"ok", "fetchError", "writeError"} :
         /\ item[r] \notin DOMAIN site => outcome = "fetchError"
         /\ IF outcome = "fetchError"
            THEN /\ HandlerCatch(r, "fetch")
                 /\ UNCHANGED urlQueue
            ELSE LET page == site[item[r]]
                     queued == PushNew(urlQueue, extractInternalLinks(page), processedUrls)
                 IN  /\ urlQueue' = queued
                     /\ IF page.widgets > 0
                        THEN /\ outcome = "ok"
                             /\ rpc' = [rpc EXCEPT ![r] = "video"]
                             /\ UNCHANGED <<processedUrls, results, progress, mlResults,
                                            item, writeCount>>
                        ELSE IF outcome = "ok" THEN WritePage(r, queued)
                        ELSE HandlerCatch(r, "write")
    /\ UNCHANGED pipelineVars
    /\ UNCHANGED <<processedVideoWidgets, videoHtml, mlQueue, fetchCalls>>
    /\ UNCHANGED <<fetchVars, sitemapVars, urlVars, progressVars, mapLimitVars>>

\* The ways the oEmbed request of a widget ends: data with html, or no response
\* that is ok after the retries (data without html is rendered as no data is).
OembedOutcomes == {"html", "failed"}

fetchOembedDataRethrow(outcome) == IF outcome = "failed" THEN "throw" ELSE outcome

\* fetchOembedData: the data, or null when the request or its parsing failed.
fetchOembedData(outcome) == IF outcome = "failed" THEN "null" ELSE outcome

\* createResponsiveVideoHtml: the embed, or the "Video unavailable" block.
createResponsiveVideoHtml(oembedData) ==
    IF oembedData = "html" THEN "embed" ELSE "unavailable"

\* processVideoWidgets for widgets whose requests end as given: each widget is
\* replaced by its static HTML.
processVideoWidgets(outcomes) ==
    [i \in 1 .. Len(outcomes) |->
        [oembed |-> outcomes[i],
         html |-> createResponsiveVideoHtml(fetchOembedData(outcomes[i]))]]

\* processVideoWidgets has settled for the page of runner r: the widgets are
\* counted, then the page is rewritten and written.  An error that leaves
\* processVideoWidgets is caught by the handler before the count.
VideoDone(r) ==
    /\ pc = "batch"
    /\ rpc[r] = "video"
    /\ \E outcomes \in [1 .. site[item[r]].widgets -> OembedOutcomes] :
         IF \E i \in DOMAIN outcomes : fetchOembedData(outcomes[i]) = "throw"
         THEN /\ HandlerCatch(r, "video")
              /\ UNCHANGED <<processedVideoWidgets, videoHtml>>
         ELSE /\ videoHtml' = [videoHtml EXCEPT ![item[r]] = processVideoWidgets(outcomes)]
              /\ processedVideoWidgets' =
                     Min(processedVideoWidgets + site[item[r]].widgets, MaxCount)
              /\ \E outcome \in {"ok", "writeError"} :
                   IF outcome = "ok" THEN WritePage(r, urlQueue)
                   ELSE HandlerCatch(r, "write")
    /\ UNCHANGED pipelineVars
    /\ UNCHANGED <<urlQueue, mlQueue, fetchCalls>>
    /\ UNCHANGED <<fetchVars, sitemapVars, urlVars, progressVars, mapLimitVars>>

AnyRunnerSettled == \E r \in 1 .. concurrency : rpc[r] = "done"

\* Promise.all(runners): every runner has left its loop.
AllRunnersSettled == \A r \in 1 .. concurrency : rpc[r] = "done"

\* Promise.all(runners) settles and the while loop tests the queue again.
BatchEnd ==
    /\ pc = "batch"
    /\ AllRunnersSettled
    /\ pc' = "crawl"
    /\ rpc' = [r \in Runners |-> "off"]
    /\ mlResults' = [success |-> 0, failed |-> 0, errors |-> <<>>]
    /\ UNCHANGED <<concurrency, localeConfig, site, spawned, shutdownCalls, polls,
                   localeIdx, allUrls, oldFiles, page404, response404>>
    /\ UNCHANGED <<urlQueue, processedUrls, processedVideoWidgets, videoHtml, results,
                   progress, mlQueue, item, fetchCalls, writeCount>>
    /\ UNCHANGED <<fetchVars, sitemapVars, urlVars, progressVars, mapLimitVars>>

(***************************************************************************)
(* mapLimit on its own, with a worker that may fail                        *)
(***************************************************************************)
MapLimitIdle ==
    /\ mpPc = "idle"
    /\ mpItems = <<>>
    /\ mpLimit = 1
    /\ mpQueue = <<>>
    /\ mpResults = [success |-> 0, failed |-> 0, errors |-> <<>>]
    /\ mpPassed = <<>>
    /\ mpWork = [r \in 1 .. MaxLimit |-> 0]

\* The item lists tried: up to MaxItems items, the same item more than once too.
ItemLists == UNION {[1 .. n -> {Root, PathA}] : n \in 0 .. MaxItems}

\* mapLimit has been called: queue = [...items], results is empty.
InitMapLimit ==
    /\ mpPc = "called"
    /\ mpItems \in ItemLists
    /\ mpLimit \in 1 .. MaxLimit
    /\ mpQueue = mpItems
    /\ mpResults = [success |-> 0, failed |-> 0, errors |-> <<>>]
    /\ mpPassed = <<>>
    /\ mpWork = [r \in 1 .. MaxLimit |-> 0]

WorkerCall(r, anItem) == [runner |-> r, item |-> anItem, ended |-> "pending"]

\* Array.from({ length: limit }, processQueue): each runner in turn runs up to
\* its first await, so it shifts one item and calls the worker, or leaves its
\* loop at once when the queue is empty.
StartRunners ==
    /\ mpPc = "called"
    /\ LET k == Min(mpLimit, Len(mpItems))
       IN  /\ mpPassed' = [r \in 1 .. k |-> WorkerCall(r, mpItems[r])]
           /\ mpWork' = [r \in 1 .. MaxLimit |-> IF r <= k THEN r ELSE 0]
           /\ mpQueue' = SubSeq(mpItems, k + 1, Len(mpItems))
    /\ mpPc' = "running"
    /\ UNCHANGED <<mpItems, mpLimit, mpResults>>
    /\ UNCHANGED <<exportVars, fetchVars, sitemapVars, urlVars, progressVars>>

CountFailureAsSuccess(res, anItem, message) == [res EXCEPT !.success = @ + 1]

\* The catch of processQueue: results.failed++ and the errors entry.
CountFailure(res, anItem, message) ==
    [res EXCEPT !.failed = @ + 1,
                !.errors = Append(@, [item |-> anItem, error |-> message])]

\* The worker call of runner r settles: the runner counts it and goes round its
\* loop, shifting the next item and calling the worker, or leaving the loop.
WorkerSettles(r) ==
    /\ mpPc = "running"
    /\ mpWork[r] > 0
    /\ \E ok \in BOOLEAN :
         LET call == mpPassed[mpWork[r]]
             ended == [mpPassed EXCEPT ![mpWork[r]].ended = IF ok THEN "ok" ELSE "failed"]
         IN  /\ mpResults' = IF ok THEN [mpResults EXCEPT !.success = @ + 1]
                             ELSE CountFailure(mpResults, call.item, "error")
             /\ IF Len(mpQueue) > 0
                THEN /\ mpQueue' = Tail(mpQueue)
                     /\ mpPassed' = Append(ended, WorkerCall(r, Head(mpQueue)))
                     /\ mpWork' = [mpWork EXCEPT ![r] = Len(mpPassed) + 1]
                ELSE /\ mpPassed' = ended
                     /\ mpWork' = [mpWork EXCEPT ![r] = 0]
                     /\ UNCHANGED mpQueue
    /\ UNCHANGED <<mpPc, mpItems, mpLimit>>
    /\ UNCHANGED <<exportVars, fetchVars, sitemapVars, urlVars, progressVars>>

\* Promise.all(runners) settles and mapLimit returns results.
RunnersSettled ==
    /\ mpPc = "running"
    /\ \A r \in 1 .. MaxLimit : mpWork[r] = 0
    /\ mpPc' = "returned"
    /\ UNCHANGED <<mpItems, mpLimit, mpQueue, mpResults, mpPassed, mpWork>>
    /\ UNCHANGED <<exportVars, fetchVars, sitemapVars, urlVars, progressVars>>

(***************************************************************************)
(* The progress computation on its own                                     *)
(***************************************************************************)
ProgressIdle ==
    /\ prProcessed = 0
    /\ prQueued = 0
    /\ prValue = 0

\* A page has been added to processedUrls: the set holds at least that page.
InitProgress ==
    /\ prProcessed \in 1 .. MaxProcessed
    /\ prQueued \in 0 .. MaxQueued
    /\ prValue = 0

\* The value is computed and passed to onProgress.
ReportProgress ==
    /\ prProcessed > 0
    /\ prValue = 0
    /\ prValue' = ProgressValue(prProcessed, prQueued)
    /\ UNCHANGED <<prProcessed, prQueued>>
    /\ UNCHANGED <<exportVars, fetchVars, sitemapVars, urlVars, mapLimitVars>>

(***************************************************************************)
(* exportStatic after the crawl loop                                       *)
(***************************************************************************)

\* The loop found the queue empty: the counters are copied into results, and
\* either the uploads step or the request for the 404 page begins.
CrawlExit ==
    /\ pc = "crawl"
    /\ Len(urlQueue) = 0
    /\ results' = [results EXCEPT !.pagesRendered = Cardinality(processedUrls),
                                  !.videoWidgetsProcessed = processedVideoWidgets]
    /\ \E downloadUploads \in {"false", "true", "copy-only"} :
         pc' = IF downloadUploads = "false" THEN "fetch404" ELSE "uploads"
    /\ UNCHANGED <<concurrency, localeConfig, site, spawned, shutdownCalls, polls,
                   localeIdx, allUrls, oldFiles, page404, response404>>
    /\ UNCHANGED <<urlQueue, processedUrls, processedVideoWidgets, videoHtml, progress,
                   mlQueue, mlResults, rpc, item, fetchCalls, writeCount>>
    /\ UNCHANGED <<fetchVars, sitemapVars, urlVars, progressVars, mapLimitVars>>

\* copyAposUploadsFromFs / extractImagesFromHtml: a failed download is absorbed,
\* a file system error is not.
Uploads ==
    /\ pc = "uploads"
    /\ \E ok \in BOOLEAN :
         IF ok THEN pc' = "fetch404" /\ UNCHANGED shutdownCalls
         ELSE Finally("thrown")
    /\ UNCHANGED <<concurrency, localeConfig, site, spawned, polls, localeIdx, allUrls,
                   oldFiles, page404, response404>>
    /\ UNCHANGED crawlVars
    /\ UNCHANGED <<fetchVars, sitemapVars, urlVars, progressVars, mapLimitVars>>

\* results.success is cleared when an error was recorded; then return and finally.
ReturnResults ==
    /\ results' = IF Len(results.errors) > 0
                  THEN [results EXCEPT !.success = FALSE]
                  ELSE results
    /\ Finally("returned")

\* The catch of the 404 block: the built-in page is written unless a 404.html
\* exists already.
Fallback404KeepNothing(existing) == "builtin"

Fallback404(existing) == IF existing = "none" THEN "builtin" ELSE existing

\* The request for /404 has settled.  Its body is written to 404.html; when the
\* request or that write throws, the catch writes the built-in page unless a
\* 404.html exists already, and a throw of that last write leaves exportStatic.
Create404 ==
    /\ pc = "fetch404"
    /\ \E outcome \in {"ok", "writeError", "fetchError"}, fallbackWritten \in BOOLEAN :
         /\ response404' = IF outcome = "fetchError" THEN "failed" ELSE "ok"
         /\ IF outcome = "ok"
            THEN /\ fallbackWritten
                 /\ page404' = "server"
                 /\ ReturnResults
            ELSE IF page404 = "none" /\ ~fallbackWritten
                 THEN /\ Finally("thrown")
                      /\ UNCHANGED <<page404, results>>
                 ELSE /\ page404' = Fallback404(page404)
                      /\ ReturnResults
    /\ UNCHANGED <<concurrency, localeConfig, site, spawned, polls, localeIdx, allUrls,
                   oldFiles>>
    /\ UNCHANGED <<urlQueue, processedUrls, processedVideoWidgets, videoHtml, progress,
                   mlQueue, mlResults, rpc, item, fetchCalls, writeCount>>
    /\ UNCHANGED <<fetchVars, sitemapVars, urlVars, progressVars, mapLimitVars>>

(***************************************************************************)
(* fetchWithRetry                                                          *)
(***************************************************************************)
Response(status) == [kind |-> "response", status |-> status]

Timeout == [kind |-> "timeout", status |-> 0]

NetworkError == [kind |-> "network", status |-> 0]

\* How one attempt can settle: a response, an abort by the timer, a rejection.
Outcomes == {Response(200), Response(404), Response(429), Response(500),
             Timeout, NetworkError}

\* response.ok
IsOk(outcome) == outcome.kind = "response" /\ outcome.status >= 200 /\ outcome.status < 300

\* The test of the comment "Don't retry 4xx errors (except 429 rate limit)".
IsClientError(outcome) ==
    /\ outcome.kind = "response"
    /\ outcome.status >= 400 /\ outcome.status < 500 /\ outcome.status # 429

RECURSIVE Pow2(_)
Pow2(n) == IF n = 0 THEN 1 ELSE 2 * Pow2(n - 1)

BackoffDelayUncapped(attempt) == 1000 * Pow2(attempt)

\* Math.min(1000 * Math.pow(2, attempt), 5000)
BackoffDelay(attempt) == Min(1000 * Pow2(attempt), 5000)

\* The test "attempt < retries" that decides whether a delay and another attempt follow.
HasRetryLeftOffByOne(attempt, retries) == attempt <= retries

HasRetryLeft(attempt, retries) == attempt < retries

FetchIdle ==
    /\ fwPc = "idle"
    /\ fwRetries = 0
    /\ fwAttempt = 0
    /\ fwLog = <<>>
    /\ fwDelays = <<>>
    /\ fwLastError = "none"

\* The call has been made and the request of attempt 0 is in flight.
InitFetch ==
    /\ fwPc = "request"
    /\ fwRetries \in 0 .. MaxRetries
    /\ fwAttempt = 0
    /\ fwLog = <<>>
    /\ fwDelays = <<>>
    /\ fwLastError = "none"

\* The request of the current attempt settles.  A response that is ok is
\* returned.  Any other outcome, the error thrown inside the try block for a
\* 4xx status included, ends in lastError; a delay follows if a retry is left,
\* and lastError is thrown otherwise.
AttemptSettles ==
    /\ fwPc = "request"
    /\ \E outcome \in Outcomes :
         /\ fwLog' = Append(fwLog, outcome)
         /\ IF IsOk(outcome)
            THEN /\ fwPc' = "returned"
                 /\ UNCHANGED <<fwAttempt, fwDelays, fwLastError>>
            ELSE /\ fwLastError' = outcome
                 /\ IF HasRetryLeft(fwAttempt, fwRetries)
                    THEN /\ fwPc' = "delay"
                         /\ fwDelays' = Append(fwDelays, BackoffDelay(fwAttempt))
                         /\ UNCHANGED fwAttempt
                    ELSE /\ fwPc' = "thrown"
                         /\ fwAttempt' = fwAttempt + 1
                         /\ UNCHANGED fwDelays
    /\ UNCHANGED fwRetries
    /\ UNCHANGED <<exportVars, sitemapVars, urlVars, progressVars, mapLimitVars>>

\* The backoff timer fires: attempt++ and the next request is made.
DelayElapsed ==
    /\ fwPc = "delay"
    /\ fwAttempt' = fwAttempt + 1
    /\ fwPc' = "request"
    /\ UNCHANGED <<fwRetries, fwLog, fwDelays, fwLastError>>
    /\ UNCHANGED <<exportVars, sitemapVars, urlVars, progressVars, mapLimitVars>>

(***************************************************************************)
(* normalizeUrl                                                            *)
(***************************************************************************)

\* The origin of an absolute URL, kept as one element at the head of the string.
PreviewOrigin == "http://preview"

\* An origin whose text begins with the text of the preview origin (a longer
\* port number or host name).
PreviewLookalike == "http://preview0"

Origins == {"http://cms", "http://other", PreviewOrigin, PreviewLookalike}

\* The part of s before the first "?" or "#".
BeforeQueryAndHash(s) == Split(Split(s, "?")[1], "#")[1]

\* The URL parser drops "." segments and resolves ".." segments.
RECURSIVE RemoveDotSegments(_, _)
RemoveDotSegments(segs, acc) ==
    IF Len(segs) = 0 THEN acc
    ELSE IF segs[1] = <<".">>
         THEN RemoveDotSegments(Tail(segs), IF Len(segs) = 1 THEN Append(acc, <<>>) ELSE acc)
    ELSE IF segs[1] = <<".", ".">>
         THEN LET popped == IF Len(acc) = 0 THEN acc ELSE Front(acc)
              IN  RemoveDotSegments(Tail(segs),
                                    IF Len(segs) = 1 THEN Append(popped, <<>>) ELSE popped)
    ELSE RemoveDotSegments(Tail(segs), Append(acc, segs[1]))

\* url.pathname of a path given with or without its leading "/".
Pathname(path) ==
    LET rel == IF StartsWith(path, <<"/">>) THEN Tail(path) ELSE path
    IN  <<"/">> \o Join(RemoveDotSegments(Split(rel, "/"), <<>>), "/")

\* new URL(urlString, "http://dummy") throws when the host is empty.
UrlParseFails(urlString) ==
    /\ StartsWith(urlString, <<"/", "/">>)
    /\ Len(Split(BeforeQueryAndHash(SubSeq(urlString, 3, Len(urlString))), "/")[1]) = 0

\* new URL(urlString, "http://dummy").pathname
UrlPathname(urlString) ==
    IF Len(urlString) > 0 /\ urlString[1] \in Origins
    THEN Pathname(BeforeQueryAndHash(Tail(urlString)))
    ELSE IF StartsWith(urlString, <<"/", "/">>)
    THEN LET afterHost == BeforeQueryAndHash(SubSeq(urlString, 3, Len(urlString)))
             slash == IndexFrom(afterHost, "/", 1)
         IN  IF slash = 0 THEN <<"/">>
             ELSE Pathname(SubSeq(afterHost, slash, Len(afterHost)))
    ELSE Pathname(BeforeQueryAndHash(urlString))

normalizeUrl(urlString) ==
    IF ~UrlParseFails(urlString)
    THEN LET pathname == UrlPathname(urlString)
         IN  IF ~Includes(pathname, ".") /\ ~EndsWith(pathname, <<"/">>)
             THEN pathname \o <<"/">>
             ELSE pathname
    ELSE LET stripped == BeforeQueryAndHash(urlString)
             pathname == IF StartsWith(stripped, <<"/">>) THEN stripped
                         ELSE <<"/">> \o stripped
         IN  IF ~HasFileExtension(pathname) /\ ~EndsWith(pathname, <<"/">>)
             THEN pathname \o <<"/">>
             ELSE pathname

RECURSIVE NormalizeAll(_)
NormalizeAll(rawUrls) ==
    IF Len(rawUrls) = 0 THEN <<>>
    ELSE <<normalizeUrl(rawUrls[1])>> \o NormalizeAll(Tail(rawUrls))

(***************************************************************************)
(* The content API as generateSitemap sees it                              *)
(***************************************************************************)
KeyArticle == <<"a", "r", "t", "i", "c", "l", "e">>

KeyNews == <<"n", "e", "w", "s">>

KeyProduct == <<"p", "r", "o", "d", "u", "c", "t">>

KeyBlog == <<"b", "l", "o", "g">>

KeyEvent == <<"e", "v", "e", "n", "t">>

KeyThing == <<"t", "h", "i", "n", "g">>

KeyPage == <<"p", "a", "g", "e">>

KeySearch == <<"s", "e", "a", "r", "c", "h">>

AposNamespace == <<"@", "a", "p", "o", "s", "t", "r", "o", "p", "h", "e", "c", "m", "s", "/">>

KeyInternalUser == AposNamespace \o <<"u", "s", "e", "r">>

heuristicTypes == <<KeyArticle, KeyNews, KeyProduct, KeyBlog, KeyEvent>>

itemsPerPage == 100

\* The collection endpoints the backend has; a request to any other answers 404.
Endpoints == {KeyArticle, KeyThing, KeySearch, KeyInternalUser}

\* The ways a request can fail.
FailureKinds == {"network", "timeout", "status", "malformed"}

\* The _url values of the page listing (entries without a string _url are left out).
PageListings ==
    {<<>>,
     <<<<"http://cms", "/">>, <<"http://cms", "/", "a", "b">>>>,
     <<<<"/", "e", "n", "/">>, <<"/", "a", "b">>, <<"/", "e", "n", "/">>>>}

\* The keys of the object served at the API root.
RootListings ==
    {<<>>,
     <<KeyArticle, KeyThing>>,
     <<KeyInternalUser, KeyPage, KeySearch, KeyThing, KeyArticle>>}

\* The results of a perPage=1 request: none, one item with a _url, one without.
ProbeResults == {"empty", "withUrl", "withoutUrl"}

RawItemX == <<"http://cms", "/", "a", "/", "x">>

RawItemY == <<"/", "a", "/", "y", ".", "h", "t", "m", "l">>

\* An item page: the length of results and the _url values of the items that have one.
ItemPage(n, rawUrls) == [n |-> n, urls |-> rawUrls]

\* The answer to a request that is no item request, or that failed.
NoPage == ItemPage(0, <<>>)

IsShortPageOrFull(n) == n <= itemsPerPage

\* results.length < itemsPerPage
IsShortPage(n) == n < itemsPerPage

ItemPages(currentPage) ==
    {ItemPage(0, <<>>), ItemPage(1, <<RawItemX>>), ItemPage(2, <<RawItemY, RawItemX>>)}
    \cup (IF currentPage < MaxItemPages
          THEN {ItemPage(itemsPerPage, <<RawItemX, RawItemY>>)} ELSE {})

PieceTypeLists == {"undefined", <<>>, <<KeyArticle>>, <<KeyThing, KeyArticle>>}

Locales == {<<>>, <<"e", "n">>}

Request(api, key, page) == [api |-> api, key |-> key, page |-> page]

(***************************************************************************)
(* generateSitemap                                                         *)
(***************************************************************************)
SitemapIdle ==
    /\ smPc = "idle"
    /\ smLocale = <<>>
    /\ smPieceTypes = "undefined"
    /\ smRequests = <<>>
    /\ smOutcomes = <<>>
    /\ smPages = <<>>
    /\ smPageUrls = <<>>
    /\ smProbeQueue = <<>>
    /\ smDiscovered = <<>>
    /\ smTypes = <<>>
    /\ smCurrentPage = 0
    /\ smUrls = <<>>
    /\ smPieceUrls = <<>>
    /\ smResult = "none"

\* The call has been made and the page listing request is in flight.
InitSitemap ==
    /\ smPc = "pages"
    /\ smLocale \in Locales
    /\ smPieceTypes \in PieceTypeLists
    /\ smRequests = <<Request("pages", <<>>, 0)>>
    /\ smOutcomes = <<>>
    /\ smPages = <<>>
    /\ smPageUrls = <<>>
    /\ smProbeQueue = <<>>
    /\ smDiscovered = <<>>
    /\ smTypes = <<>>
    /\ smCurrentPage = 0
    /\ smUrls = <<>>
    /\ smPieceUrls = <<>>
    /\ smResult = "none"

\* fetchAllPages after the response: the normalized URLs, the root fallback,
\* then without duplicates and sorted.
PageUrlsNoFallback(listing, locale) == SortedSet(Range(NormalizeAll(listing)))

PageUrls(listing, locale) ==
    LET urls == NormalizeAll(listing)
        expectedHomepage == <<"/">> \o locale \o <<"/">>
        withRoot ==
            IF Len(locale) > 0
            THEN IF expectedHomepage \notin Range(urls) /\ <<"/">> \notin Range(urls)
                 THEN Append(urls, <<"/">>) ELSE urls
            ELSE IF <<"/">> \notin Range(urls) THEN Append(urls, <<"/">>) ELSE urls
    IN  SortedSet(Range(withRoot))

FilterCandidatesKeepAll(keys) == keys

\* probeCandidates: the keys of the root listing that are kept.
RECURSIVE FilterCandidates(_)
FilterCandidates(keys) ==
    IF Len(keys) = 0 THEN <<>>
    ELSE IF StartsWith(keys[1], AposNamespace) \/ keys[1] \in {KeySearch, KeyPage}
         THEN FilterCandidates(Tail(keys))
         ELSE <<keys[1]>> \o FilterCandidates(Tail(keys))

\* The keys of the queue from the first one that is not yet discovered.
RECURSIVE SkipDiscovered(_, _)
SkipDiscovered(queue, discovered) ==
    IF Len(queue) = 0 THEN <<>>
    ELSE IF queue[1] \in Range(discovered) THEN SkipDiscovered(Tail(queue), discovered)
    ELSE queue

\* Array.from(new Set(list)): the first occurrences in order.
RECURSIVE Distinct(_, _)
Distinct(list, acc) ==
    IF Len(list) = 0 THEN acc
    ELSE IF list[1] \in Range(acc) THEN Distinct(Tail(list), acc)
    ELSE Distinct(Tail(list), Append(acc, list[1]))

\* The last lines of generateSitemap.
ReturnSitemapKeepDuplicates(pageUrls, pieceUrls) ==
    /\ smPc' = "returned"
    /\ smResult' = pageUrls \o pieceUrls
    /\ smPieceUrls' = pieceUrls
    /\ smTypes' = <<>>
    /\ smCurrentPage' = 0
    /\ smUrls' = <<>>
    /\ UNCHANGED smRequests

ReturnSitemap(pageUrls, pieceUrls) ==
    /\ smPc' = "returned"
    /\ smResult' = SortedSet(Range(pageUrls) \cup Range(pieceUrls))
    /\ smPieceUrls' = pieceUrls
    /\ smTypes' = <<>>
    /\ smCurrentPage' = 0
    /\ smUrls' = <<>>
    /\ UNCHANGED smRequests

\* The loop over the types: the first request of the next type, or the return.
StartItems(types, pageUrls, pieceUrls) ==
    IF Len(types) = 0
    THEN ReturnSitemap(pageUrls, pieceUrls)
    ELSE /\ smPc' = "items"
         /\ smTypes' = types
         /\ smCurrentPage' = 1
         /\ smUrls' = <<>>
         /\ smPieceUrls' = pieceUrls
         /\ smRequests' = Append(smRequests, Request("items", types[1], 1))
         /\ UNCHANGED smResult

\* discoverPieceTypes goes on: the probe of the next key, or the item requests.
ContinueDiscovery(queue, discovered) ==
    LET rest == SkipDiscovered(queue, discovered)
    IN  /\ smDiscovered' = discovered
        /\ smProbeQueue' = rest
        /\ IF Len(rest) > 0
           THEN /\ smPc' = "probe"
                /\ smRequests' = Append(smRequests, Request("probe", rest[1], 0))
                /\ UNCHANGED <<smTypes, smCurrentPage, smUrls, smPieceUrls, smResult>>
           ELSE StartItems(Distinct(discovered, <<>>), smPageUrls, <<>>)

\* A failure of the page listing leaves fetchAllPages and generateSitemap as an error.
PagesFailedGoOn(kind) ==
    /\ smPageUrls' = <<>>
    /\ IF smPieceTypes = "undefined"
       THEN /\ smPc' = "root"
            /\ smRequests' = Append(smRequests, Request("root", <<>>, 0))
            /\ UNCHANGED <<smProbeQueue, smDiscovered, smTypes, smCurrentPage, smUrls,
                           smPieceUrls, smResult>>
       ELSE /\ StartItems(smPieceTypes, <<>>, <<>>)
            /\ UNCHANGED <<smProbeQueue, smDiscovered>>

PagesFailed(kind) ==
    /\ smPc' = "thrown"
    /\ UNCHANGED <<smRequests, smPageUrls, smProbeQueue, smDiscovered, smTypes,
                   smCurrentPage, smUrls, smPieceUrls, smResult>>

\* The page listing request settles.
PagesSettle ==
    /\ smPc = "pages"
    /\ \/ \E kind \in FailureKinds :
            /\ smOutcomes' = Append(smOutcomes, kind)
            /\ smPages' = Append(smPages, NoPage)
            /\ PagesFailed(kind)
       \/ \E listing \in PageListings :
            /\ smOutcomes' = Append(smOutcomes, "ok")
            /\ smPages' = Append(smPages, NoPage)
            /\ smPageUrls' = PageUrls(listing, smLocale)
            /\ IF smPieceTypes = "undefined"
               THEN /\ smPc' = "root"
                    /\ smRequests' = Append(smRequests, Request("root", <<>>, 0))
                    /\ UNCHANGED <<smProbeQueue, smDiscovered, smTypes, smCurrentPage,
                                   smUrls, smPieceUrls, smResult>>
               ELSE /\ StartItems(smPieceTypes, PageUrls(listing, smLocale), <<>>)
                    /\ UNCHANGED <<smProbeQueue, smDiscovered>>
    /\ UNCHANGED <<smLocale, smPieceTypes>>
    /\ UNCHANGED <<exportVars, fetchVars, urlVars, progressVars, mapLimitVars>>

\* The request for the API root settles: probeCandidates returns the keys kept,
\* or no key when the request failed.
RootSettle ==
    /\ smPc = "root"
    /\ \/ \E kind \in FailureKinds :
            /\ smOutcomes' = Append(smOutcomes, kind)
            /\ smPages' = Append(smPages, NoPage)
            /\ ContinueDiscovery(heuristicTypes, <<>>)
       \/ \E keys \in RootListings :
            /\ smOutcomes' = Append(smOutcomes, "ok")
            /\ smPages' = Append(smPages, NoPage)
            /\ ContinueDiscovery(FilterCandidates(keys) \o heuristicTypes, <<>>)
    /\ UNCHANGED <<smLocale, smPieceTypes, smPageUrls>>
    /\ UNCHANGED <<exportVars, fetchVars, urlVars, progressVars, mapLimitVars>>

\* isPieceEndpoint: what the probe of a key concludes from its response.
IsPieceEndpoint(outcome) == outcome \in {"empty", "withUrl"}

\* The perPage=1 request of the key at the head of the queue settles.
ProbeSettle ==
    /\ smPc = "probe"
    /\ \E outcome \in FailureKinds \cup ProbeResults :
         /\ smProbeQueue[1] \notin Endpoints => outcome = "status"
         /\ smOutcomes' = Append(smOutcomes, outcome)
         /\ smPages' = Append(smPages, NoPage)
         /\ ContinueDiscovery(Tail(smProbeQueue),
                              IF IsPieceEndpoint(outcome)
                              THEN Append(smDiscovered, smProbeQueue[1])
                              ELSE smDiscovered)
    /\ UNCHANGED <<smLocale, smPieceTypes, smPageUrls>>
    /\ UNCHANGED <<exportVars, fetchVars, urlVars, progressVars, mapLimitVars>>

\* fetchAllPieces returns its urls: they are pushed and the next type begins.
FinishType(urls) == StartItems(Tail(smTypes), smPageUrls, smPieceUrls \o urls)

\* The request of one item page settles.  A status that is not ok ends the type
\* with the URLs collected so far; a rejected request or a body that is not
\* JSON is not caught by fetchAllPieces nor by generateSitemap.
ItemsSettle ==
    /\ smPc = "items"
    /\ \/ \E kind \in {"network", "timeout", "malformed"} :
            /\ smTypes[1] \in Endpoints
            /\ smOutcomes' = Append(smOutcomes, kind)
            /\ smPages' = Append(smPages, NoPage)
            /\ smPc' = "thrown"
            /\ UNCHANGED <<smRequests, smTypes, smCurrentPage, smUrls, smPieceUrls,
                           smResult>>
       \/ /\ smOutcomes' = Append(smOutcomes, "status")
          /\ smPages' = Append(smPages, NoPage)
          /\ FinishType(smUrls)
       \/ \E page \in ItemPages(smCurrentPage) :
            LET urls == smUrls \o NormalizeAll(page.urls)
            IN  /\ smTypes[1] \in Endpoints
                /\ smOutcomes' = Append(smOutcomes, "ok")
                /\ smPages' = Append(smPages, page)
                /\ IF IsShortPage(page.n)
                   THEN FinishType(urls)
                   ELSE /\ smCurrentPage' = smCurrentPage + 1
                        /\ smUrls' = urls
                        /\ smRequests' = Append(smRequests,
                               Request("items", smTypes[1], smCurrentPage + 1))
                        /\ UNCHANGED <<smPc, smTypes, smPieceUrls, smResult>>
    /\ UNCHANGED <<smLocale, smPieceTypes, smPageUrls, smProbeQueue, smDiscovered>>
    /\ UNCHANGED <<exportVars, fetchVars, urlVars, progressVars, mapLimitVars>>

(***************************************************************************)
(* URLs through queryParamsToPath, normalizeUrl, makeUrlsRelative,         *)
(* extractInternalLinks and writeHtmlForPath                               *)
(***************************************************************************)

\* No value yet, and the value of a link that is not extracted; neither is a
\* string of characters.
NoValue == <<"none">>

Skipped == <<"skipped">>

\* A parameter of a query string.
Param(key, value) == <<key, value>>

\* The text "key=value" of each parameter.
ParamTexts(params) == [i \in 1 .. Len(params) |-> params[i][1] \o <<"=">> \o params[i][2]]

\* The query string of the parameters, with its "?", empty for no parameter.
QueryString(params) ==
    IF Len(params) = 0 THEN <<>> ELSE <<"?">> \o Join(ParamTexts(params), "&")

\* The same parameters in every order.
Reorderings(params) ==
    LET n == Len(params)
        perms == {f \in [1 .. n -> 1 .. n] : \A i, j \in 1 .. n : f[i] = f[j] => i = j}
    IN  {[i \in 1 .. n |-> params[f[i]]] : f \in perms}

UrlPrefixes == {<<>>, <<PreviewOrigin>>, <<PreviewLookalike>>, <<"http://other">>}

PathArticles == <<"/", "a", "r", "t", "i", "c", "l", "e", "s", "/">>

PathVersioned == <<"/", "v", "1", ".", "2", "/", "a", "b", "o", "u", "t">>

UrlPaths ==
    {<<>>, Root, PathANoSlash, PathA, <<"x">>, <<"/", "a", ".", "h", "t", "m", "l">>,
     <<"/", "/", "o", "/", "x">>, PathArticles, PathVersioned}

ParamLists ==
    {<<>>,
     <<Param(<<"b">>, <<"1">>), Param(<<"a">>, <<"2">>)>>,
     <<Param(<<"x">>, <<>>), Param(<<"y">>, <<"1">>)>>,
     <<Param(<<"y">>, <<"1">>)>>,
     <<Param(<<"B">>, <<"1">>), Param(<<"a">>, <<"2">>)>>,
     <<Param(<<"b">>, <<"%", "3", "F", "c">>)>>,
     <<Param(<<"a">>, <<"1">>), Param(<<"b">>, <<>>), Param(<<"c">>, <<"2">>)>>,
     <<Param(<<"c", "a", "t", "e", "g", "o", "r", "y">>, <<"n", "e", "w", "s">>), Param(<<"p", "a", "g", "e">>, <<"2">>)>>}

UrlHashes == {<<>>, <<"#", "h">>}

PagePaths == {Root, PathA}

UrlIdle ==
    /\ upPc = "idle"
    /\ upPage = Root
    /\ upPrefix = <<>>
    /\ upPath = Root
    /\ upParams = <<>>
    /\ upHash = <<>>
    /\ upCanon = NoValue
    /\ upCanon2 = NoValue
    /\ upReordered = NoValue
    /\ upNorm = NoValue
    /\ upNorm2 = NoValue
    /\ upRewritten = NoValue
    /\ upLink = NoValue
    /\ upFile = NoValue

InitUrl ==
    /\ upPc = "ready"
    /\ upPage \in PagePaths
    /\ upPrefix \in UrlPrefixes
    /\ upPath \in UrlPaths
    /\ upParams \in ParamLists
    /\ upHash \in UrlHashes
    /\ upCanon = NoValue
    /\ upCanon2 = NoValue
    /\ upReordered = NoValue
    /\ upNorm = NoValue
    /\ upNorm2 = NoValue
    /\ upRewritten = NoValue
    /\ upLink = NoValue
    /\ upFile = NoValue

\* The path and query of the URL, the argument of queryParamsToPath.
RawPath == upPath \o QueryString(upParams)

\* The URL as it is written in the page or served by the content API.
RawUrl == upPrefix \o upPath \o QueryString(upParams) \o upHash

\* url.search: the query with its "?", empty when there is none or only "?".
UrlSearch(s) ==
    LET b == Split(s, "#")[1]
        i == IndexFrom(b, "?", 1)
    IN  IF i = 0 \/ i = Len(b) THEN <<>> ELSE SubSeq(b, i, Len(b))

\* url.hash: the fragment with its "#", empty when there is none or only "#".
UrlHash(s) ==
    LET i == IndexFrom(s, "#", 1)
    IN  IF i = 0 \/ i = Len(s) THEN <<>> ELSE SubSeq(s, i, Len(s))

\* url.startsWith(previewUrl)
StartsWithPreviewUrl(url) == Len(url) > 0 /\ url[1] \in {PreviewOrigin, PreviewLookalike}

\* makeUrlsRelative for the value of one href or action attribute.
RewriteUrl(url) ==
    IF Len(url) = 0 THEN url
    ELSE LET rest == Tail(url)
             finalUrl ==
                 IF StartsWithPreviewUrl(url)
                 THEN Pathname(BeforeQueryAndHash(rest)) \o UrlSearch(rest) \o UrlHash(rest)
                 ELSE url
         IN  IF Includes(finalUrl, "?")
             THEN LET pieces == Split(finalUrl, "?")
                      pathname == pieces[1]
                      search == pieces[2]
                      hashIndex == IndexFrom(search, "#", 1)
                      searchWithoutHash ==
                          IF hashIndex > 0 THEN SubSeq(search, 1, hashIndex - 1) ELSE search
                      hash ==
                          IF hashIndex > 0 THEN SubSeq(search, hashIndex, Len(search))
                          ELSE <<>>
                  IN  queryParamsToPath(pathname \o <<"?">> \o searchWithoutHash) \o hash
             ELSE finalUrl

\* extractInternalLinks for one href: new URL(href, baseUrl), then pathname +
\* search when the origin is the origin of baseUrl; Skipped otherwise.
ExtractLink(href) ==
    IF Len(href) = 0 THEN Skipped
    ELSE IF href[1] \in Origins
    THEN IF href[1] = PreviewOrigin
         THEN Pathname(BeforeQueryAndHash(Tail(href))) \o UrlSearch(Tail(href))
         ELSE Skipped
    ELSE IF StartsWith(href, <<"/", "/">>) THEN Skipped
    ELSE Pathname(BeforeQueryAndHash(href)) \o UrlSearch(href)

\* The origin of new URL(urlPath, previewUrl), the URL exportStatic requests.
RequestOrigin(urlPath) ==
    IF StartsWith(urlPath, <<"/", "/">>) THEN "http://other" ELSE PreviewOrigin

\* The file a static host serves for a path: the file itself when the path
\* has an extension, the index.html of the directory otherwise.
ServedFile(path) ==
    IF HasFileExtension(path) THEN PathJoin(path) ELSE Append(PathJoin(path), IndexHtml)

\* The location an href denotes in a page of the exported site: a browser
\* resolves it against the URL of the page.
Location(href, page) ==
    IF Len(href) > 0 /\ href[1] \in Origins
    THEN [origin |-> href[1], file |-> ServedFile(Pathname(BeforeQueryAndHash(Tail(href))))]
    ELSE IF StartsWith(href, <<"/", "/">>)
    THEN [origin |-> "http://other", file |-> ServedFile(UrlPathname(href))]
    ELSE LET path == BeforeQueryAndHash(href)
             resolved == IF Len(path) = 0 THEN page
                         ELSE IF StartsWith(path, <<"/">>) THEN Pathname(path)
                         ELSE Pathname(page \o path)
         IN  [origin |-> "site", file |-> ServedFile(resolved)]

Canonicalize ==
    /\ upPc = "ready"
    /\ upCanon = NoValue
    /\ upCanon' = queryParamsToPath(RawPath)
    /\ UNCHANGED <<upPc, upPage, upPrefix, upPath, upParams, upHash, upCanon2,
                   upReordered, upNorm, upNorm2, upRewritten, upLink, upFile>>
    /\ UNCHANGED <<exportVars, fetchVars, sitemapVars, progressVars, mapLimitVars>>

CanonicalizeAgain ==
    /\ upCanon # NoValue
    /\ upCanon2 = NoValue
    /\ upCanon2' = queryParamsToPath(upCanon)
    /\ UNCHANGED <<upPc, upPage, upPrefix, upPath, upParams, upHash, upCanon,
                   upReordered, upNorm, upNorm2, upRewritten, upLink, upFile>>
    /\ UNCHANGED <<exportVars, fetchVars, sitemapVars, progressVars, mapLimitVars>>

CanonicalizeReordered ==
    /\ upPc = "ready"
    /\ upReordered = NoValue
    /\ \E params \in Reorderings(upParams) :
         upReordered' = queryParamsToPath(upPath \o QueryString(params))
    /\ UNCHANGED <<upPc, upPage, upPrefix, upPath, upParams, upHash, upCanon, upCanon2,
                   upNorm, upNorm2, upRewritten, upLink, upFile>>
    /\ UNCHANGED <<exportVars, fetchVars, sitemapVars, progressVars, mapLimitVars>>

Normalize ==
    /\ upPc = "ready"
    /\ upNorm = NoValue
    /\ upNorm' = normalizeUrl(RawUrl)
    /\ UNCHANGED <<upPc, upPage, upPrefix, upPath, upParams, upHash, upCanon, upCanon2,
                   upReordered, upNorm2, upRewritten, upLink, upFile>>
    /\ UNCHANGED <<exportVars, fetchVars, sitemapVars, progressVars, mapLimitVars>>

NormalizeAgain ==
    /\ upNorm # NoValue
    /\ upNorm2 = NoValue
    /\ upNorm2' = normalizeUrl(upNorm)
    /\ UNCHANGED <<upPc, upPage, upPrefix, upPath, upParams, upHash, upCanon, upCanon2,
                   upReordered, upNorm, upRewritten, upLink, upFile>>
    /\ UNCHANGED <<exportVars, fetchVars, sitemapVars, progressVars, mapLimitVars>>

Rewrite ==
    /\ upPc = "ready"
    /\ upRewritten = NoValue
    /\ upRewritten' = RewriteUrl(RawUrl)
    /\ UNCHANGED <<upPc, upPage, upPrefix, upPath, upParams, upHash, upCanon, upCanon2,
                   upReordered, upNorm, upNorm2, upLink, upFile>>
    /\ UNCHANGED <<exportVars, fetchVars, sitemapVars, progressVars, mapLimitVars>>

Extract ==
    /\ upPc = "ready"
    /\ upLink = NoValue
    /\ upLink' = ExtractLink(RawUrl)
    /\ UNCHANGED <<upPc, upPage, upPrefix, upPath, upParams, upHash, upCanon, upCanon2,
                   upReordered, upNorm, upNorm2, upRewritten, upFile>>
    /\ UNCHANGED <<exportVars, fetchVars, sitemapVars, progressVars, mapLimitVars>>

WriteLink ==
    /\ upLink \notin {NoValue, Skipped}
    /\ upFile = NoValue
    /\ upFile' = OutputPath(upLink)
    /\ UNCHANGED <<upPc, upPage, upPrefix, upPath, upParams, upHash, upCanon, upCanon2,
                   upReordered, upNorm, upNorm2, upRewritten, upLink>>
    /\ UNCHANGED <<exportVars, fetchVars, sitemapVars, progressVars, mapLimitVars>>

(***************************************************************************)
(* Specifications                                                          *)
(***************************************************************************)
vars == <<exportVars, fetchVars, sitemapVars, urlVars, progressVars, mapLimitVars>>

Next ==
    \/ Build
    \/ WaitForServer
    \/ Discover
    \/ BatchStart
    \/ \E r \in Runners : RunnerTake(r)
    \/ \E r \in Runners : FetchDone(r)
    \/ \E r \in Runners : VideoDone(r)
    \/ BatchEnd
    \/ CrawlExit
    \/ Uploads
    \/ Create404

Init == InitExport /\ FetchIdle /\ SitemapIdle /\ UrlIdle /\ ProgressIdle /\ MapLimitIdle

\* One run of exportStatic.
Spec == Init /\ [][Next]_vars

\* exportStatic is not running.
ExportIdle ==
    /\ InitExport
    /\ pc = "build"
    /\ concurrency = 1
    /\ localeConfig = NoLocaleConfig
    /\ site = SiteSlash

InitFetchCall == ExportIdle /\ InitFetch /\ SitemapIdle /\ UrlIdle /\ ProgressIdle /\ MapLimitIdle

InitSitemapCall == ExportIdle /\ FetchIdle /\ InitSitemap /\ UrlIdle /\ ProgressIdle /\ MapLimitIdle

NextFetch ==
    \/ AttemptSettles
    \/ DelayElapsed

\* One call of fetchWithRetry.
SpecFetch == InitFetchCall /\ [][NextFetch]_vars

NextSitemap ==
    \/ PagesSettle
    \/ RootSettle
    \/ ProbeSettle
    \/ ItemsSettle

\* One call of generateSitemap.
SpecSitemap == InitSitemapCall /\ [][NextSitemap]_vars

InitUrlCall == ExportIdle /\ FetchIdle /\ SitemapIdle /\ InitUrl /\ ProgressIdle /\ MapLimitIdle

NextUrl ==
    \/ Canonicalize
    \/ CanonicalizeAgain
    \/ CanonicalizeReordered
    \/ Normalize
    \/ NormalizeAgain
    \/ Rewrite
    \/ Extract
    \/ WriteLink

\* One URL of a page taken through the canonicalizers, the rewriter, the link
\* extraction and the writer.
SpecUrl == InitUrlCall /\ [][NextUrl]_vars

InitDiscoveryCall == InitDiscovery /\ FetchIdle /\ SitemapIdle /\ UrlIdle /\ ProgressIdle /\ MapLimitIdle

NextDiscovery ==
    \/ Build
    \/ WaitForServer
    \/ DiscoverLocales

\* exportStatic with a locale configuration, up to the start of the crawl.
SpecDiscovery == InitDiscoveryCall /\ [][NextDiscovery]_vars

InitProgressCall ==
    ExportIdle /\ FetchIdle /\ SitemapIdle /\ UrlIdle /\ InitProgress /\ MapLimitIdle

NextProgress == ReportProgress

\* One progress report of the crawl loop.
SpecProgress == InitProgressCall /\ [][NextProgress]_vars

InitMapLimitCall ==
    ExportIdle /\ FetchIdle /\ SitemapIdle /\ UrlIdle /\ ProgressIdle /\ InitMapLimit

NextMapLimit ==
    \/ StartRunners
    \/ \E r \in 1 .. MaxLimit : WorkerSettles(r)
    \/ RunnersSettled

\* One call of mapLimit with a worker that may fail.
SpecMapLimit == InitMapLimitCall /\ [][NextMapLimit]_vars

\* One run of exportStatic that does not stop while a step can be taken: a
\* request in flight settles in the end and the code that waits for it goes on.
\* A batch holds finitely many items, so that no runner can be passed over for
\* ever by the steps of the others.
FairSpec == Spec /\ WF_vars(Next)

(***************************************************************************)
(* Properties of the crawl                                                 *)
(***************************************************************************)

\* The same-origin links of the page behind a URL path (none if it has no page).
LinksOf(u) == IF u \in DOMAIN site THEN Range(extractInternalLinks(site[u])) ELSE {}

RECURSIVE LinkClosure(_)
LinkClosure(S) ==
    LET more == S \cup UNION {LinksOf(u) : u \in S}
    IN  IF more = S THEN S ELSE LinkClosure(more)

\* The URL paths reachable from the seed list over same-origin links.
Reachable == LinkClosure(Range(allUrls))

RECURSIVE SumOver(_, _)
SumOver(f, S) ==
    IF S = {} THEN 0
    ELSE LET x == CHOOSE y \in S : TRUE IN f[x] + SumOver(f, S \ {x})

\* The page requests made for the URL paths that are written to file f.
FetchesOfFile(f) == SumOver(fetchCalls, {u \in Urls : OutputPath(u) = f})

\* The crawl loop has just ended.
CrawlLoopDone == pc \in {"uploads", "fetch404"}

\* C1: at the end of the crawl loop of a run without a failed fetch or write,
\* every canonical path reachable from the seed list has been fetched exactly
\* once and written exactly once.
C1_EveryCanonicalPathOnce ==
    (CrawlLoopDone /\ results.errors = <<>>) =>
        \A u \in Reachable :
            /\ writeCount[OutputPath(u)] = 1
            /\ FetchesOfFile(OutputPath(u)) = 1

\* What does hold: every reachable raw URL path is fetched and written once.
EveryRawPathOnce ==
    (CrawlLoopDone /\ results.errors = <<>>) =>
        \A u \in Reachable : fetchCalls[u] = 1 /\ u \in processedUrls

\* Two raw URL paths with the same canonical path: they are written to one file.
SameCanonicalPath(u, v) == u # v /\ OutputFileOf[u] = OutputFileOf[v]

\* C2: once a raw URL path is marked processed, no other raw URL path with the
\* same canonical path is enqueued, fetched or written.
C2_OneTargetPerCanonicalPath ==
    [][\A u \in processedUrls : \A v \in Urls :
         SameCanonicalPath(u, v) =>
            /\ v \in Range(urlQueue') => v \in Range(urlQueue)
            /\ fetchCalls'[v] = fetchCalls[v]
            /\ v \in processedUrls' => v \in processedUrls]_vars

\* C3: the crawl loop, once entered, is left in the end, whatever pages fail.
C3_CrawlLoopExits == (pc = "crawl") ~> (pc \notin {"crawl", "batch"})

\* The handler of runner r returns in this step.
HandlerEnds(r) == rpc[r] \in {"fetch", "video"} /\ rpc'[r] \notin {"fetch", "video"}

\* The handler of runner r returns in this step without having written its page.
HandlerFails(r) == HandlerEnds(r) /\ item[r] \notin processedUrls'

\* s is the beginning of t.
IsPrefix(s, t) == Len(s) <= Len(t) /\ SubSeq(t, 1, Len(s)) = s

\* C6: a handler that fails appends exactly one entry for its URL to
\* results.errors (a handler that succeeds appends none); its runner goes back to
\* the head of its loop; the other runners, the rest of the batch and the
\* pending queue are left as they were; the crawl loop never ends in an error;
\* and when the loop has ended every seed and every link of a written page has
\* been handed to the handler.
C6_FailureIsolated ==
    /\ [][\A r \in Runners :
            /\ HandlerFails(r) =>
                 /\ Len(results.errors) < MaxErrors =>
                      /\ Len(results'.errors) = Len(results.errors) + 1
                      /\ IsPrefix(results.errors, results'.errors)
                      /\ Last(results'.errors).url = item[r]
                 /\ rpc'[r] = "loop"
                 /\ \A q \in Runners \ {r} : rpc'[q] = rpc[q] /\ item'[q] = item[q]
                 /\ mlQueue' = mlQueue
                 /\ IsPrefix(urlQueue, urlQueue')
            /\ (HandlerEnds(r) /\ ~HandlerFails(r)) => results' = results]_vars
    /\ [][(pc \in {"crawl", "batch"}) => (pc' # "thrown")]_vars
    /\ [](CrawlLoopDone =>
            /\ \A u \in Range(allUrls) : fetchCalls[u] >= 1
            /\ \A u \in processedUrls : \A v \in LinksOf(u) : fetchCalls[v] >= 1)

\* A run has returned with one page in errors and another page written.
C6_Witness ==
    /\ pc = "returned"
    /\ Len(results.errors) >= 1
    /\ \E u \in processedUrls : u # results.errors[1].url

\* C7: in the result returned, success is false exactly if errors is not empty,
\* pagesRendered is the number of URLs marked processed, and no URL that was
\* marked processed appears in errors.
C7_ResultConsistent ==
    pc = "returned" =>
        /\ (results.success = FALSE) <=> (Len(results.errors) > 0)
        /\ results.pagesRendered = Cardinality(processedUrls)
        /\ \A i \in 1 .. Len(results.errors) : results.errors[i].url \notin processedUrls

\* C8: when exportStatic has ended after the preview server was spawned,
\* shutdown() has run; it does not run before.
C8_ShutdownAlwaysRuns ==
    /\ (spawned /\ pc \in {"returned", "thrown"}) => shutdownCalls = 1
    /\ pc \notin {"returned", "thrown"} => shutdownCalls = 0

\* A run has failed after the crawl loop and shutdown() has run.
C8_Witness ==
    /\ pc = "thrown"
    /\ spawned
    /\ results.pagesRendered > 0
    /\ shutdownCalls = 1

(***************************************************************************)
(* Properties of fetchWithRetry                                            *)
(***************************************************************************)

\* C4: a response with a status in [400, 500) other than 429 ends the call at
\* once: it is the last attempt, the call fails, and no delay follows it.
C4_ClientErrorNotRetried ==
    \A i \in 1 .. Len(fwLog) :
        IsClientError(fwLog[i]) =>
            /\ i = Len(fwLog)
            /\ fwPc = "thrown"
            /\ Len(fwDelays) = i - 1

\* C5: at most retries + 1 attempts are made and each failed attempt counts
\* for one; a response that is ok ends the call at once as its result; the call
\* fails only after retries + 1 failed attempts, with the error of the last.
C5_RetryBudget ==
    /\ Len(fwLog) <= fwRetries + 1
    /\ fwPc = "request" => Len(fwLog) = fwAttempt
    /\ fwPc = "delay" => Len(fwLog) = fwAttempt + 1
    /\ \A i \in 1 .. Len(fwLog) - 1 : ~IsOk(fwLog[i])
    /\ fwPc = "returned" <=> (Len(fwLog) > 0 /\ IsOk(Last(fwLog)))
    /\ fwPc = "thrown" <=>
          (Len(fwLog) = fwRetries + 1 /\ ~IsOk(Last(fwLog)))
    /\ fwPc = "thrown" => fwLastError = Last(fwLog)

\* With retries = 3, two failed attempts and a third that is ok: returned.
C5_Witness ==
    /\ fwRetries = 3
    /\ fwPc = "returned"
    /\ Len(fwLog) = 3
    /\ fwLog[1] = Response(500)
    /\ fwLog[2] = Timeout

(***************************************************************************)
(* Properties of generateSitemap                                           *)
(***************************************************************************)

\* The page listing request, the first request of a call, has failed.
PageListingFailed == Len(smOutcomes) >= 1 /\ smOutcomes[1] # "ok"

\* C9: when the page listing request fails, generateSitemap fails: no list is
\* returned and no request is issued after the page listing request.
C9_PageListingFailureIsFatal ==
    PageListingFailed =>
        /\ smPc = "thrown"
        /\ smResult = "none"
        /\ Len(smRequests) = 1
        /\ Len(smOutcomes) = 1

\* The page listing was answered with a status that is not ok.
C9_Witness ==
    /\ smOutcomes = <<"status">>
    /\ smPc = "thrown"

\* C10: a failure of a probe or of an item request does not fail
\* generateSitemap, and the list returned holds the page URLs and the item URLs
\* collected from every type.
C10_OnlyPageListingIsFatal ==
    /\ smPc = "thrown" => PageListingFailed
    /\ smPc = "returned" =>
          Range(smPageUrls) \cup Range(smPieceUrls) \subseteq Range(smResult)

\* C11 as stated: the list returned by generateSitemap holds the root path "/",
\* whether or not a locale is given.
C11_RootAlwaysPresent == smPc = "returned" => Root \in Range(smResult)

\* The home page of a locale: `/${locale}/`.
LocaleHomepage(locale) == <<"/">> \o locale \o <<"/">>

\* C11 as amended: the list returned by generateSitemap holds the root path "/"
\* or, when a locale is given, the home page of the locale.
C11_RootOrLocaleHomepage ==
    smPc = "returned" =>
        \/ Root \in Range(smResult)
        \/ Len(smLocale) > 0 /\ LocaleHomepage(smLocale) \in Range(smResult)

\* The page listing was empty and the list returned holds the root path alone.
C11_Witness ==
    /\ smPc = "returned"
    /\ Len(smLocale) > 0
    /\ smResult = <<Root>>

\* A key of the internal namespace, or one of the keys "page" and "search".
IsExcludedKey(key) == StartsWith(key, AposNamespace) \/ key \in {KeyPage, KeySearch}

\* C12: when the types are discovered, no key of the internal namespace and
\* neither "page" nor "search" is among the discovered types or the types whose
\* items are requested.
C12_DiscoveryExcludesInternalKeys ==
    smPieceTypes = "undefined" =>
        /\ \A i \in 1 .. Len(smDiscovered) : ~IsExcludedKey(smDiscovered[i])
        /\ \A i \in 1 .. Len(smTypes) : ~IsExcludedKey(smTypes[i])
        /\ \A i \in 1 .. Len(smRequests) :
              smRequests[i].api = "items" => ~IsExcludedKey(smRequests[i].key)

\* The API root listed internal keys, "page" and "search" before the key that
\* was probed first, and the items of that key were requested.
C12_Witness ==
    /\ smPieceTypes = "undefined"
    /\ smPc = "returned"
    /\ Len(smRequests) >= 4
    /\ smRequests[3] = Request("probe", KeyThing, 0)
    /\ \E i \in 1 .. Len(smRequests) : smRequests[i] = Request("items", KeyThing, 1)

(***************************************************************************)
(* Properties of the canonicalizers, the rewriter and the writer           *)
(***************************************************************************)

\* C13: queryParamsToPath applied to its own result gives that result again,
\* and so does normalizeUrl.
C13_CanonicalizationIdempotent ==
    /\ upCanon2 # NoValue => upCanon2 = upCanon
    /\ upNorm2 # NoValue => upNorm2 = upNorm

\* The entries sorted by key in the order of the code units.
RECURSIVE SortByCodeUnit(_)
SortByCodeUnit(entries) ==
    IF Len(entries) = 0 THEN <<>>
    ELSE LET least == CHOOSE i \in 1 .. Len(entries) :
                          \A j \in 1 .. Len(entries) :
                              CompareBy(0, entries[i][1], entries[j][1]) <= 0
         IN  <<entries[least]>>
             \o SortByCodeUnit(SubSeqAt(entries, (1 .. Len(entries)) \ {least}))

\* The path without the "/" at its end.
WithoutTrailingSlash(path) == IF EndsWith(path, <<"/">>) THEN Front(path) ELSE path

\* The canonical path made of a path and of the key-value parts given.
WithSegment(path, parts) ==
    IF Len(parts) = 0 THEN path
    ELSE WithoutTrailingSlash(path) \o <<"/">> \o Join(parts, "-") \o <<"/">>

\* C14: the parameters of a query in any other order give the same canonical
\* path, and its parts are in the ascending order of the code units of the keys.
C14_QueryOrderIndependent ==
    (upCanon # NoValue /\ upReordered # NoValue) =>
        /\ upReordered = upCanon
        /\ upCanon = WithSegment(upPath,
               ParamParts(SortByCodeUnit(URLSearchParams(Join(ParamTexts(upParams), "&")))))

\* No key and no value of the parameters holds an escape.
PlainParams ==
    \A i \in 1 .. Len(upParams) : \A k \in 1 .. 2 :
        ~Includes(upParams[i][k], "%") /\ ~Includes(upParams[i][k], "+")

\* The parameters with a value, in the order the code sorts them, as key-value.
KeptParts ==
    LET kept == SelectSeq(SortParams(upParams), LAMBDA e : Len(e[2]) > 0)
    IN  [i \in 1 .. Len(kept) |-> kept[i][1] \o <<"-">> \o kept[i][2]]

ParamX == Param(<<"x">>, <<>>)

ParamY == Param(<<"y">>, <<"1">>)

\* C15: the parameters with an empty value add nothing to the canonical path
\* and the others are its key-value parts joined by "-" in one segment:
\* /a?x=&y=1 and /a?y=1 both give /a/y-1/, and /articles/?category=news&page=2
\* is written to articles/category-news-page-2/index.html.
C15_EmptyValuesDropped ==
    /\ (upCanon # NoValue /\ PlainParams) => upCanon = WithSegment(upPath, KeptParts)
    /\ (upCanon # NoValue /\ upPath = PathANoSlash
           /\ upParams \in {<<ParamX, ParamY>>, <<ParamY>>}) =>
          upCanon = <<"/", "a", "/", "y", "-", "1", "/">>
    /\ (upFile # NoValue /\ upPrefix = <<>> /\ upPath = PathArticles
           /\ upParams = <<Param(<<"c", "a", "t", "e", "g", "o", "r", "y">>, <<"n", "e", "w", "s">>), Param(<<"p", "a", "g", "e">>, <<"2">>)>>) =>
          upFile = <<<<"a", "r", "t", "i", "c", "l", "e", "s">>, <<"c", "a", "t", "e", "g", "o", "r", "y", "-", "n", "e", "w", "s", "-", "p", "a", "g", "e", "-", "2">>, IndexHtml>>

\* /a?x=&y=1 has been canonicalized.
C15_Witness ==
    /\ upPath = PathANoSlash
    /\ upParams = <<ParamX, ParamY>>
    /\ upCanon = <<"/", "a", "/", "y", "-", "1", "/">>

\* C16: the value the rewriter leaves for a link that is extracted denotes,
\* in the page that holds it, the file the writer writes for that link.
C16_LinkAndFileAgree ==
    (upRewritten # NoValue /\ upFile # NoValue) =>
        Location(upRewritten, upPage) = [origin |-> "site", file |-> upFile]

\* C17: a URL written with an origin that is not the preview origin is left by
\* the rewriter as it was.
C17_ExternalUrlsUntouched ==
    (upRewritten # NoValue /\ upPrefix \in {<<"http://other">>, <<PreviewLookalike>>}) =>
        upRewritten = RawUrl

\* processVideoWidgets settles in this step for the page of runner r.
VideoStep(r) == rpc[r] = "video" /\ rpc'[r] # "video"

\* C18: when processVideoWidgets settles for a page, every widget of the page
\* has been replaced: one whose oEmbed request failed by the "unavailable"
\* placeholder, one whose request gave html by its embed; videoWidgetsProcessed
\* has grown by the number of widgets of the page; and the step puts no entry in
\* errors for the video, the page being written and marked processed unless the
\* write itself fails.
C18_VideoWidgetsDegrade ==
    /\ [][\A r \in Runners : VideoStep(r) =>
            LET u == item[r]
                n == site[u].widgets
            IN  /\ Len(videoHtml'[u]) = n
                /\ \A i \in 1 .. n :
                     /\ videoHtml'[u][i].oembed = "failed"
                          => videoHtml'[u][i].html = "unavailable"
                     /\ videoHtml'[u][i].oembed = "html"
                          => videoHtml'[u][i].html = "embed"
                /\ processedVideoWidgets' = Min(processedVideoWidgets + n, MaxCount)
                /\ \/ u \in processedUrls' /\ results' = results
                   \/ /\ u \notin processedUrls'
                      /\ Len(results.errors) < MaxErrors
                           => Last(results'.errors) = [url |-> u, error |-> "write"]]_vars
    /\ [](pc = "returned" =>
            /\ \A k \in 1 .. Len(results.errors) : results.errors[k].error # "video"
            /\ results.videoWidgetsProcessed = processedVideoWidgets)

\* A run has returned without errors, having written a page whose first widget
\* got the placeholder after a failed oEmbed request and whose second widget
\* got its embed, both counted.
C18_Witness ==
    /\ pc = "returned"
    /\ results.errors = <<>>
    /\ results.videoWidgetsProcessed = 2
    /\ \E u \in processedUrls :
         videoHtml[u] = <<[oembed |-> "failed", html |-> "unavailable"],
                          [oembed |-> "html", html |-> "embed"]>>

\* The request for /404 settles in this step.
NotFoundStep == pc = "fetch404" /\ pc' # "fetch404"

\* The step adds nothing to errors and does not turn success to false.
NotFoundStepIsSilent ==
    /\ results'.errors = results.errors
    /\ ~results'.success => (~results.success \/ Len(results.errors) > 0)

\* C19 as the spec states it: when exportStatic returns a result, 404.html holds
\* the body fetched from /404 when that fetch succeeded and the built-in minimal
\* page otherwise; and a failed /404 fetch adds nothing to the errors of that
\* result and does not make it a failure.
C19_NotFoundPageFetchedOrBuiltIn ==
    /\ [](pc = "returned" =>
            page404 = IF response404 = "ok" THEN "server" ELSE "builtin")
    /\ [][(NotFoundStep /\ response404' = "failed" /\ pc' = "returned") =>
            NotFoundStepIsSilent]_vars

\* C19 as the code has it: when exportStatic returns a result, a root 404.html
\* exists; it holds the body fetched from /404 when the fetch succeeded and the
\* body was written, and otherwise the 404.html that was in the output
\* directory already (the copy of the build output's), or the built-in minimal
\* page when there was none; and a failed /404 fetch adds nothing to the errors
\* of that result and does not make it a failure.
C19_NotFoundPageKeptFetchedOrBuiltIn ==
    /\ [](pc = "returned" => page404 \in {"server", "dist", "builtin"})
    /\ [][NotFoundStep =>
            /\ NotFoundStepIsSilent
            /\ pc' = "returned" =>
                 /\ page404' = "server" => response404' = "ok"
                 /\ page404' # "server" =>
                      page404' = IF page404 = "none" THEN "builtin" ELSE page404
                 /\ response404' = "failed" => page404' # "server"]_vars

\* A run has returned a result after the request for /404 failed, and 404.html
\* is still the page of the build output.
C19_Witness ==
    /\ pc = "returned"
    /\ response404 = "failed"
    /\ page404 = "dist"
    /\ results.success

\* The origin new URL(href, baseUrl) gives the href taken in extractInternalLinks.
ResolvedOrigin ==
    IF upPrefix # <<>> THEN upPrefix[1]
    ELSE IF StartsWith(RawPath, <<"/", "/">>) THEN "http://other"
    ELSE PreviewOrigin

\* C20: a link that extractInternalLinks hands to the frontier is a path whose
\* request goes to the preview origin, and an href whose resolved origin is not
\* the preview origin is never handed to the frontier.
C20_SameOriginConfinement ==
    /\ upLink \notin {NoValue, Skipped} =>
         /\ StartsWith(upLink, <<"/">>)
         /\ RequestOrigin(upLink) = PreviewOrigin
    /\ (upLink # NoValue /\ ResolvedOrigin # PreviewOrigin) => upLink = Skipped

\* A canonical path: it begins with "/", holds no "#" and no "?", and ends with
\* "/" unless it ends in a file extension.
IsCanonicalPath(p) ==
    /\ StartsWith(p, <<"/">>)
    /\ ~Includes(p, "#")
    /\ ~Includes(p, "?")
    /\ EndsWith(p, <<"/">>) \/ HasFileExtension(p)

\* C21: the path normalizeUrl gives for a raw URL, and the path
\* queryParamsToPath gives for the pathname and query of a URL, is a canonical
\* path.
C21_CanonicalPathInvariant ==
    /\ upNorm # NoValue => IsCanonicalPath(upNorm)
    /\ (upCanon # NoValue /\ StartsWith(upPath, <<"/">>)) => IsCanonicalPath(upCanon)

\* The runners whose handler is in flight.
InFlight == {r \in Runners : rpc[r] \in {"fetch", "video"}}

\* C22: at most concurrency handlers are in flight; the part of a batch that is
\* in flight or waiting holds at most 2 * concurrency URLs, as does what one
\* step removes from the queue; and a batch ends, and the queue loses entries,
\* only when no handler is in flight, no runner is in its loop and no item of
\* the batch is waiting.
C22_BoundedConcurrency ==
    /\ [](Cardinality(InFlight) <= concurrency)
    /\ [](Cardinality(InFlight) + Len(mlQueue) <= 2 * concurrency)
    /\ [][(Len(urlQueue') < Len(urlQueue) \/ (pc = "batch" /\ pc' # "batch")) =>
            /\ Len(urlQueue) - Len(urlQueue') <= 2 * concurrency
            /\ InFlight = {}
            /\ \A r \in Runners : rpc[r] # "loop"
            /\ mlQueue = <<>>]_vars

\* With concurrency 1 a batch of two was removed from a longer queue: one
\* handler is in flight, one URL of the batch waits and the queue holds more.
C22_Witness ==
    /\ concurrency = 1
    /\ Cardinality(InFlight) = 1
    /\ Len(mlQueue) = 1
    /\ Len(urlQueue) >= 1

\* C23: the pending queue never holds the same URL twice, and what a step of
\* the crawl appends to it was, before that step, neither in the processed set
\* nor in the queue.
C23_AtomicEnqueue ==
    /\ [](\A i, j \in 1 .. Len(urlQueue) : i # j => urlQueue[i] # urlQueue[j])
    /\ [][pc = "batch" =>
            /\ IsPrefix(urlQueue, urlQueue')
            /\ \A k \in Len(urlQueue) + 1 .. Len(urlQueue') :
                 /\ urlQueue'[k] \notin processedUrls
                 /\ urlQueue'[k] \notin Range(urlQueue)]_vars

\* A link that is no seed was appended, and a later page that links to it was
\* written while it was still pending.
C23_Witness ==
    /\ pc = "batch"
    /\ \E u \in Range(urlQueue) \ Range(allUrls) :
         \E v \in processedUrls : u \in LinksOf(v)

\* URL u is pending, waits in the batch, is being handled, or is processed.
Tracked(u) ==
    \/ u \in Range(urlQueue)
    \/ u \in Range(mlQueue)
    \/ \E r \in Runners : item[r] = u
    \/ u \in processedUrls

\* C24: a URL that is pending, in its batch, in flight or processed stays so
\* in every step, also when its handler fails; a URL appended to the queue was
\* never in the queue before; and no URL is handed to the handler twice.
C24_FrontierEntriesRetained ==
    /\ [][\A u \in Urls : Tracked(u) => Tracked(u)']_vars
    /\ [][\A k \in Len(urlQueue) + 1 .. Len(urlQueue') :
            ~Tracked(urlQueue'[k]) /\ fetchCalls[urlQueue'[k]] = 0]_vars
    /\ [](\A u \in Urls : fetchCalls[u] <= 1)

\* The handler of runner r ends in this step with its page marked processed.
HandlerSucceeds(r) == HandlerEnds(r) /\ item[r] \in processedUrls'

\* The handler of runner r ends in this step because its fetch failed.
FetchFails(r) ==
    /\ rpc[r] = "fetch"
    /\ HandlerFails(r)
    /\ Len(results'.errors) > Len(results.errors)
    /\ Last(results'.errors).error = "fetch"

\* C25: a processed URL has had its file written; the step that marks a URL
\* processed writes its file, after the links of the page were offered to the
\* queue (each is pending or was processed before the step) and after its video
\* widgets were transformed; when the handler goes on to the video transform
\* the links are in already and nothing is written or marked; and a failed
\* fetch leaves the queue as it was.
C25_HandlerStepOrder ==
    /\ [](\A u \in processedUrls : writeCount[OutputFileOf[u]] >= 1)
    /\ [][\A r \in Runners :
            /\ HandlerSucceeds(r) =>
                 /\ writeCount'[OutputFileOf[item[r]]] =
                        Min(writeCount[OutputFileOf[item[r]]] + 1, MaxCount)
                 /\ LinksOf(item[r]) \subseteq Range(urlQueue') \cup processedUrls
                 /\ Len(videoHtml'[item[r]]) = site[item[r]].widgets
            /\ (rpc[r] = "fetch" /\ rpc'[r] = "video") =>
                 /\ LinksOf(item[r]) \subseteq Range(urlQueue') \cup processedUrls
                 /\ processedUrls' = processedUrls
                 /\ writeCount' = writeCount
                 /\ videoHtml' = videoHtml
            /\ FetchFails(r) => urlQueue' = urlQueue]_vars

\* A run has returned with a page whose two widgets were transformed before it
\* was written, and with the failed fetch of another URL in errors.
C25_Witness ==
    /\ pc = "returned"
    /\ PathA \in processedUrls
    /\ Len(videoHtml[PathA]) = 2
    /\ \E k \in 1 .. Len(results.errors) :
         results.errors[k].error = "fetch" /\ results.errors[k].url # PathA

\* The delay the claim gives for the failed attempt number k.
ClaimedDelay(k) ==
    IF k = 0 THEN 1000 ELSE IF k = 1 THEN 2000 ELSE IF k = 2 THEN 4000 ELSE 5000

\* C26: the k-th delay taken follows failed attempt k - 1 and lasts 1000, 2000,
\* 4000, 5000, 5000, ... ms; while a request is in flight or a delay runs there
\* has been one delay per attempt that has settled, and a call that has ended,
\* by a success or by its last failure, has taken one delay less than it made
\* attempts.
C26_BackoffDelays ==
    /\ \A k \in 1 .. Len(fwDelays) :
         /\ fwDelays[k] = ClaimedDelay(k - 1)
         /\ ~IsOk(fwLog[k])
    /\ fwPc \in {"request", "delay"} => Len(fwDelays) = Len(fwLog)
    /\ fwPc \in {"returned", "thrown"} => Len(fwDelays) = Len(fwLog) - 1

\* A call with retries = 4 has failed after five attempts and the delays 1000,
\* 2000, 4000 and 5000.
C26_Witness ==
    /\ fwRetries = 4
    /\ fwPc = "thrown"
    /\ Len(fwLog) = 5
    /\ fwDelays = <<1000, 2000, 4000, 5000>>

\* Request i asked for a page of items.
IsItemRequest(i) == smRequests[i].api = "items"

\* Request i was answered with a page of 100 items or more.
FullPage(i) == i <= Len(smOutcomes) /\ smOutcomes[i] = "ok" /\ smPages[i].n >= 100

\* The normalized URLs of the items of the pages served from request i on.
RECURSIVE ItemUrlsFrom(_)
ItemUrlsFrom(i) ==
    IF i > Len(smPages) THEN <<>>
    ELSE (IF IsItemRequest(i) THEN NormalizeAll(smPages[i].urls) ELSE <<>>)
         \o ItemUrlsFrom(i + 1)

\* C27: an item request asks for page 1, or for the page after the one the
\* request before it asked of the same type, and that one was answered with a
\* full page; a full page is followed by the request for the next page; and
\* when the call has returned with every item request answered, the piece URLs
\* are the normalized URLs of the items of every page served, in order.
C27_PaginationUntilShortPage ==
    /\ \A i \in 1 .. Len(smRequests) :
         IsItemRequest(i) =>
            /\ \/ smRequests[i].page = 1
               \/ /\ i > 1
                  /\ smRequests[i - 1] =
                        Request("items", smRequests[i].key, smRequests[i].page - 1)
                  /\ FullPage(i - 1)
            /\ FullPage(i) =>
                  /\ i < Len(smRequests)
                  /\ smRequests[i + 1] =
                        Request("items", smRequests[i].key, smRequests[i].page + 1)
    /\ (/\ smPc = "returned"
        /\ \A i \in 1 .. Len(smRequests) : IsItemRequest(i) => smOutcomes[i] = "ok")
         => smPieceUrls = ItemUrlsFrom(1)

\* A call has returned after a full first page and a short second page of
\* articles, every request answered, with the items of both pages in the list.
C27_Witness ==
    /\ smPc = "returned"
    /\ \A i \in 1 .. Len(smRequests) : smOutcomes[i] = "ok"
    /\ \E i \in 1 .. Len(smRequests) - 1 :
         /\ smRequests[i] = Request("items", KeyArticle, 1)
         /\ smPages[i].n = 100
         /\ smRequests[i + 1] = Request("items", KeyArticle, 2)
         /\ smPages[i + 1].n = 1
    /\ Len(smPieceUrls) >= 3


(***************************************************************************)
(* C28: the progress value after a page                                    *)
(***************************************************************************)
\* round(50 * processed / (processed + queued)) in exact arithmetic, a half
\* rounded up as Math.round does.
ExactRound50(processed, queued) ==
    (100 * processed + (processed + queued)) \div (2 * (processed + queued))

\* The value reported after a page lies in [40, 90] and its denominator is at
\* least 1.
ProgressInRange ==
    prValue # 0 =>
        /\ prProcessed + prQueued >= 1
        /\ prValue >= 40
        /\ prValue <= 90

\* C28: the value passed to onProgress after a page is rendered is
\* 40 + round(50 * processedCount / (processedCount + remainingQueueLength));
\* the denominator is at least 1 and the value lies in [40, 90].
C28_PerPageProgress ==
    /\ ProgressInRange
    /\ prValue # 0 => prValue = 40 + ExactRound50(prProcessed, prQueued)

\* 50 * processed / (processed + queued) lies exactly halfway between two
\* integers.
IsTie(processed, queued) ==
    (100 * processed) % (2 * (processed + queued)) = processed + queued

\* The reported value is the claimed one, or one less at a tie.
ProgressWithinOneAtTies ==
    prValue # 0 =>
        \/ prValue = 40 + ExactRound50(prProcessed, prQueued)
        \/ /\ IsTie(prProcessed, prQueued)
           /\ prValue = 40 + ExactRound50(prProcessed, prQueued) - 1


(***************************************************************************)
(* C29: seeding with a locale configuration                                *)
(***************************************************************************)
\* One iteration of the locale loop has just run.
LocaleStep ==
    /\ pc = "discover"
    /\ pc' = "discover"
    /\ localeConfig # NoLocaleConfig
    /\ localeIdx' # localeIdx

\* The loop is over and the seed list is made.
SeedStep ==
    /\ pc = "discover"
    /\ localeConfig # NoLocaleConfig
    /\ localeIdx = Len(localeConfig)
    /\ pc' # "discover"

\* What the claim says of one URL and its prefixed form.
PrefixedAsClaimed(url, prefixed, prefix) ==
    /\ Len(prefix) = 0 => prefixed = url
    /\ (Len(prefix) > 0 /\ StartsWith(url, prefix \o <<"/">>)) => prefixed = url
    /\ (Len(prefix) > 0 /\ url = <<"/">>) => prefixed = prefix \o <<"/">>
    /\ (Len(prefix) > 0 /\ ~StartsWith(url, prefix \o <<"/">>)) => prefixed = prefix \o url

\* C29: with a locale configuration, discovery and prefix application run once
\* per locale and the seed list is the duplicate-free union of the prefixed URL
\* sets; applying a prefix is idempotent (a URL under the prefix is unchanged,
\* "/" becomes prefix + "/") and an empty prefix leaves every URL unchanged.
C29_MultiLocaleSeeding ==
    [][/\ LocaleStep =>
            /\ localeIdx' = localeIdx + 1
            /\ localeIdx' <= Len(localeConfig)
            /\ \E urls \in LocaleSitemaps :
                 LET prefix == localeConfig[localeIdx'].prefix
                     added == SubSeq(allUrls', Len(allUrls) + 1, Len(allUrls'))
                 IN  /\ allUrls' = allUrls \o added
                     /\ Len(added) = Len(urls)
                     /\ \A i \in 1 .. Len(urls) :
                          PrefixedAsClaimed(urls[i], added[i], prefix)
                     /\ applyLocalePrefix(added, prefix) = added
       /\ SeedStep =>
            /\ localeIdx' = Len(localeConfig)
            /\ Range(allUrls') = Range(allUrls)
            /\ \A i, j \in 1 .. Len(allUrls') : allUrls'[i] = allUrls'[j] => i = j
            /\ pc' = "crawl" => urlQueue' = allUrls'
      ]_vars

\* Two locales, the second with prefix /fr: "/" of the second has become /fr/
\* and the seed list holds each URL once.
C29_Witness ==
    /\ pc = "crawl"
    /\ Len(localeConfig) = 2
    /\ localeIdx = 2
    /\ localeConfig[1].prefix = <<>>
    /\ localeConfig[2].prefix = PrefixFr
    /\ allUrls = <<Root, PathFr, PathFrA>>
    /\ urlQueue = allUrls


(***************************************************************************)
(* C30: failures before the crawl                                          *)
(***************************************************************************)
\* No worker has been started, no page fetched and no file of the output
\* directory touched.
NoWorkDone ==
    /\ rpc = [r \in Runners |-> "off"]
    /\ mlQueue = <<>>
    /\ urlQueue = <<>>
    /\ processedUrls = {}
    /\ \A u \in Urls : fetchCalls[u] = 0
    /\ \A f \in OutputFiles : writeCount[f] = 0
    /\ oldFiles
    /\ page404 = "none"

\* exportStatic ends with an error out of the readiness wait or the discovery.
PreCrawlFailure ==
    /\ pc \in {"waitForServer", "discover"}
    /\ pc' = "thrown"

\* C30: when the preview server does not become ready, when discovery fails for
\* a locale or when discovery yields no URLs, exportStatic raises an error
\* without spawning a worker, fetching a page or writing an output file.
C30_FatalPreCrawlFailures ==
    [][/\ (pc = "waitForServer" /\ polls' >= MaxPolls) => pc' = "thrown"
       /\ (pc = "discover" /\ pc' # "discover" /\ allUrls' = <<>>) => pc' = "thrown"
       /\ (pc = "discover" /\ pc' = "crawl") => allUrls' # <<>>
       /\ PreCrawlFailure => (NoWorkDone /\ NoWorkDone' /\ results' = results)
      ]_vars

\* The server was ready, discovery found no URL, and the run has ended with an
\* error.
C30_Witness ==
    /\ pc = "thrown"
    /\ spawned
    /\ polls < MaxPolls
    /\ allUrls = <<>>
    /\ shutdownCalls = 1
    /\ NoWorkDone


(***************************************************************************)
(* C31: discovery and the retrying fetch                                   *)
(***************************************************************************)
\* Failures that fetchWithRetry retries whatever the status was.
TransientFailures == {"network", "timeout"}

\* Request i of the call is the first attempt of what it asks for.
IsFirstAttempt(i) == i = 1 \/ smRequests[i - 1] # smRequests[i]

\* C31: every request of generateSitemap goes through the retrying fetch: after
\* a first transient failure of a request the call has not failed and the same
\* request is issued again.
C31_DiscoveryRetries ==
    \A i \in 1 .. Len(smOutcomes) :
        (smOutcomes[i] \in TransientFailures /\ IsFirstAttempt(i)) =>
            /\ smPc # "thrown"
            /\ Len(smRequests) > i
            /\ smRequests[i + 1] = smRequests[i]


(***************************************************************************)
(* C32: the output directory before the crawl                              *)
(***************************************************************************)
\* The output directory holds what it held before the call.
OutputUntouched ==
    /\ oldFiles
    /\ page404 = "none"
    /\ \A f \in OutputFiles : writeCount[f] = 0

\* Readiness, discovery and the check for an empty list have succeeded.
DiscoverySucceeds ==
    /\ pc = "discover"
    /\ pc' = "crawl"
    /\ spawned
    /\ localeConfig # NoLocaleConfig => localeIdx = Len(localeConfig)
    /\ allUrls' # <<>>

\* C32: the output directory is cleared only after readiness, discovery and the
\* non-empty check have succeeded; when exportStatic fails at the build, the
\* readiness wait, the discovery or for want of URLs, the directory holds what
\* it held before.
C32_OutputUntouchedBeforeCrawl ==
    [][/\ pc \in {"build", "waitForServer", "discover"} => OutputUntouched
       /\ (OutputUntouched /\ ~OutputUntouched') => DiscoverySucceeds
       /\ (pc \in {"build", "waitForServer", "discover"} /\ pc' = "thrown")
             => OutputUntouched'
      ]_vars

\* The preview server never answered: the run has failed and the output
\* directory is as it was.
C32_Witness ==
    /\ pc = "thrown"
    /\ spawned
    /\ polls = MaxPolls
    /\ OutputUntouched


(***************************************************************************)
(* C33: the list generateSitemap returns                                   *)
(***************************************************************************)
\* No element of the list occurs twice.
IsDuplicateFree(list) ==
    \A i, j \in 1 .. Len(list) : list[i] = list[j] => i = j

NoUrlsOnlyWithoutLocales ==
    [][(/\ pc = "discover"
        /\ localeConfig # NoLocaleConfig
        /\ localeIdx = Len(localeConfig)
        /\ pc' = "thrown") => Len(localeConfig) = 0]_vars


(***************************************************************************)
(* C34: the accounting of mapLimit                                         *)
(***************************************************************************)
\* The items of the worker calls so far, in the order of the calls.
PassedItems == [i \in 1 .. Len(mpPassed) |-> mpPassed[i].item]

\* How many entries of the list satisfy: item is anItem.
ErrorsFor(anItem) ==
    Cardinality({i \in 1 .. Len(mpResults.errors) : mpResults.errors[i].item = anItem})

FailedCallsFor(anItem) ==
    Cardinality({i \in 1 .. Len(mpPassed) :
                    mpPassed[i].item = anItem /\ mpPassed[i].ended = "failed"})

\* C34: each item is passed to the worker exactly once and by one runner, a
\* failure of the worker on one item keeps no other item from being handled,
\* and on return success + failed is the number of items, with one errors
\* entry for each failed item.
C34_MapLimitAccounting ==
    /\ mpPc \in {"running", "returned"} =>
          /\ PassedItems \o mpQueue = mpItems
          /\ \A r \in 1 .. MaxLimit :
                mpWork[r] > 0 => /\ r <= mpLimit
                                 /\ mpPassed[mpWork[r]].runner = r
                                 /\ mpPassed[mpWork[r]].ended = "pending"
          /\ \A i \in 1 .. Len(mpPassed) :
                mpPassed[i].ended = "pending" => mpWork[mpPassed[i].runner] = i
    /\ mpPc = "returned" =>
          /\ PassedItems = mpItems
          /\ \A i \in 1 .. Len(mpPassed) : mpPassed[i].ended \in {"ok", "failed"}
          /\ mpResults.success + mpResults.failed = Len(mpItems)
          /\ mpResults.failed = Len(mpResults.errors)
          /\ \A anItem \in Range(mpItems) : ErrorsFor(anItem) = FailedCallsFor(anItem)

\* Three items, one runner: the first call failed, the other two were made all
\* the same, and the counts add up.
C34_Witness ==
    /\ mpPc = "returned"
    /\ mpLimit = 1
    /\ Len(mpItems) = 3
    /\ mpPassed[1].ended = "failed"
    /\ mpPassed[2].ended = "ok"
    /\ mpPassed[3].ended = "ok"
    /\ mpResults.success = 2
    /\ mpResults.failed = 1

====
